---- MODULE Spec2Model ----
(***************************************************************************)
(* Pictionary: the in-memory game session engine (GameService), its round  *)
(* timer (TimerService), the word catalogue (WordService) and the session  *)
(* facade (GameController) with its AnimationService.                      *)
(*                                                                         *)
(* Execution model.  Every Engine operation is an `async` method.  Calling *)
(* it runs its synchronous prefix at once: for startGame, selectWord,      *)
(* submitGuess, endRound and updateGameState that prefix is the call of    *)
(* getGameSession, whose body (`this.sessions.get(id) || null`) reads the  *)
(* store AT CALL TIME.  The rest of the method runs after the `await`, as  *)
(* a continuation on the microtask queue (FIFO), and works on the session  *)
(* object captured at call time.  The program runs on one event loop: a    *)
(* macrotask (a call by the user of the program, a setInterval or          *)
(* setTimeout callback) starts only when the microtask queue is empty, so  *)
(* nothing interleaves between a call and its continuation; callers call   *)
(* one operation at a time.  Player objects live on a heap: one            *)
(* generation of objects per `players.map(...)` copy; a session refers to  *)
(* a generation, and currentDrawer to one object of a generation.          *)
(***************************************************************************)
EXTENDS Integers, Sequences, FiniteSets, TLC

VARIABLES
  sessions,   \* GameService.sessions : id -> GameSession | Null
  heap,       \* player objects: generation -> index -> [id, score, isDrawing]
  timers,     \* TimerService.timers : id -> TimerData | Null
  mq,         \* microtask queue: pending continuations of async methods
  ret,        \* what the step just taken returned or threw (observation)
  hist,       \* history of the current round (observation)
  currentSession,  \* GameController.currentSession
  eventHandlers,   \* GameController.eventHandlers: is the listener registered
  isInitialized,   \* AnimationService.isInitialized
  chain,      \* the Controller method awaiting an Engine call, or Null
  tasks,      \* pending setTimeout callbacks (animations, delayed endRound)
  busy,       \* the caller of the Controller awaits the method it called
  events,     \* the events the listener received, with the cached round
  timerService,    \* a TimerService used on its own (see SpecTimer)
  listeners,       \* the listener list of a GameController (see SpecEvents)
  probe            \* the last evaluation of a pure function (see SpecPure)

ctlVars ==
  <<currentSession, eventHandlers, isInitialized, chain, tasks, busy, events>>

\* the parts of the program that are specified on their own
aloneVars == <<timerService, listeners, probe>>

vars == <<sessions, heap, timers, mq, ret, hist, ctlVars, aloneVars>>

----------------------------------------------------------------------------
(* Bounds of the model *)

\* largest maxTime / maxRounds a configuration may carry
MaxTime == 2
MaxRounds == 2
\* a caller submits no further guess once this many guesses were credited
MaxCredits == 2
\* a caller calls no Controller method while this many timeouts are pending
MaxTasks == 2
\* rounds of the three-player game of SpecRotation
MaxRotation == 4
\* longest duration a timer is started with in SpecTimer, and the number of
\* intervals (startTimer and resumeTimer calls) set up in one behaviour
MaxDuration == 2
MaxIntervals == 2
\* handlers registered at a time in SpecEvents
MaxListeners == 2
\* the scoring functions are evaluated on -MaxArg..MaxArg in SpecPure
MaxArg == 5
\* a caller initializes no further game once the Engine created this many
\* player lists
MaxLists == 4

----------------------------------------------------------------------------
(* Values *)

Null == [null |-> TRUE]

\* the session ids of a behaviour: the keys the sessions map may hold
SessionIds == DOMAIN sessions

\* generateSessionId yields one id, or one of two
OneSession == {"s1"}
TwoSessions == {"s1", "s2"}

\* the value of 0/0 in calculateGuessPoints; absorbing under addition
NaN == -1

\* the values of x/0 for x > 0 and x < 0
Infinity == -2
NegInfinity == -3

JsAdd(a, b) == IF a = NaN \/ b = NaN THEN NaN ELSE a + b

WAITING == "waiting"
DRAWING == "drawing"
GUESSING == "guessing"
CORRECT_GUESS == "correct_guess"
TIME_UP == "time_up"
GAME_OVER == "game_over"

GameState == {WAITING, DRAWING, GUESSING, CORRECT_GUESS, TIME_UP, GAME_OVER}

----------------------------------------------------------------------------
(* Word catalogue *)

Butterfly == <<"b", "u", "t", "t", "e", "r", "f", "l", "y">>
Rainbow == <<"r", "a", "i", "n", "b", "o", "w">>
Cat == <<"c", "a", "t">>
Democracy == <<"d", "e", "m", "o", "c", "r", "a", "c", "y">>

\* WordService.words, two entries of the medium tier and one of the others
words ==
  [easy |-> <<[id |-> "easy_1", word |-> Cat, difficulty |-> "easy"]>>,
   medium |-> <<[id |-> "medium_1", word |-> Butterfly, difficulty |-> "medium"],
                [id |-> "medium_3", word |-> Rainbow, difficulty |-> "medium"]>>,
   hard |-> <<[id |-> "hard_1", word |-> Democracy, difficulty |-> "hard"]>>]

\* the entries getRandomWord may return for a tier
getRandomWord(difficulty) ==
  {words[difficulty][i] : i \in 1..Len(words[difficulty])}

toLowerCase(s) ==
  [i \in 1..Len(s) |->
     CASE s[i] = "B" -> "b"
       [] s[i] = "R" -> "r"
       [] s[i] = "Y" -> "y"
       [] OTHER -> s[i]]

RECURSIVE trimStart(_)
trimStart(s) ==
  IF s # <<>> /\ Head(s) = " " THEN trimStart(Tail(s)) ELSE s

RECURSIVE trimEnd(_)
trimEnd(s) ==
  IF s # <<>> /\ s[Len(s)] = " " THEN trimEnd(SubSeq(s, 1, Len(s) - 1)) ELSE s

trim(s) == trimEnd(trimStart(s))

\* a validation that accepts every non-empty guess
validateGuess_NonEmpty(guess, targetWord) ==
  guess # <<>> /\ targetWord # <<>>

\* WordService.validateGuess
validateGuess(guess, targetWord) ==
  IF guess = <<>> \/ targetWord = <<>>
    THEN FALSE
    ELSE trim(toLowerCase(guess)) = trim(toLowerCase(targetWord))

\* the guesses a caller submits: a word in another case and padded with
\* blanks, a word as it is, and the empty string
PaddedButterfly == <<" ", "B", "u", "t", "t", "e", "r", "f", "l", "Y", " ">>

Guesses == {PaddedButterfly, Rainbow, <<>>}

----------------------------------------------------------------------------
(* Scoring *)

\* GameService.calculateGuessPoints: 100 + floor(timeRemaining / maxTime * 50).
\* A division by 0 gives NaN for 0/0 and an infinity otherwise (in a game
\* with maxTime = 0 no timer ever starts and timeRemaining stays 0); for the
\* arguments of this model the double arithmetic is exact up to the floor
calculateGuessPoints(timeRemaining, maxTime) ==
  IF maxTime = 0
    THEN IF timeRemaining = 0 THEN NaN
         ELSE IF timeRemaining > 0 THEN Infinity ELSE NegInfinity
    ELSE 100 + ((timeRemaining * 50) \div maxTime)

\* Math.max(0, x) of a ratio given by its numerator and positive denominator
ClampZero(numerator) == IF numerator < 0 THEN 0 ELSE numerator

\* GameUtils.calculateGuessScore: 0 for a negative timeRemaining or a
\* non-positive maxTime, else basePoints + floor(max(0, ratio) * 50)
calculateGuessScore(timeRemaining, maxTime, basePoints) ==
  IF timeRemaining < 0 \/ maxTime <= 0
    THEN 0
    ELSE basePoints + ((ClampZero(timeRemaining) * 50) \div maxTime)

calculateDrawerPoints == 50

----------------------------------------------------------------------------
(* Timer service *)

\* a stopTimer that forgets the entry's interval: the timer keeps running
stopTimer_KeepsInterval(t, sid) == t

\* a stopTimer that clears the whole map of timers
stopTimer_All(t, sid) == [other \in DOMAIN t |-> Null]

\* TimerService.stopTimer: deactivate, clear the interval, delete the entry
stopTimer(t, sid) == [t EXCEPT ![sid] = Null]

\* the onTick callback of startRoundTimer: write timeRemaining into the
\* session currently stored (read at the time of the tick)
onTick(s, sid, timeRemaining) ==
  IF s[sid] # Null
    THEN [s EXCEPT ![sid] = [@ EXCEPT !.timeRemaining = timeRemaining]]
    ELSE s

\* TimerService.startTimer with the callbacks of startRoundTimer:
\* stop the existing timer, reject a non-positive duration, tick once at
\* once, then register the entry with its interval
startTimer(s, t, sid, duration) ==
  IF duration <= 0
    THEN [s |-> s, t |-> stopTimer(t, sid), threw |-> TRUE]
    ELSE [s |-> onTick(s, sid, duration),
          t |-> [stopTimer(t, sid) EXCEPT ![sid] =
                   [duration |-> duration, timeRemaining |-> duration,
                    isActive |-> TRUE, interval |-> TRUE]],
          threw |-> FALSE]

----------------------------------------------------------------------------
(* Continuations and results *)

\* a pending continuation of an async Engine method: the session object it
\* captured at call time and its arguments
Cont(op, sid, snap) ==
  [op |-> op, stage |-> 1, sid |-> sid, snap |-> snap, player |-> 0,
   guess |-> <<>>, word |-> Null, newState |-> WAITING, origin |-> "caller"]

\* what a step returned or threw: the method, its arguments and its result
NoArgs ==
  [player |-> 0, guess |-> <<>>, config |-> Null, players |-> <<>>,
   names |-> 0]

NoRet == [op |-> "none", sid |-> "s1", result |-> "none", args |-> NoArgs]

Ret(c, result) ==
  [op |-> c.op, sid |-> c.sid, result |-> result,
   args |-> [NoArgs EXCEPT !.player = c.player, !.guess = c.guess]]

\* the effect of running one continuation to its next await or to its end
Effect(s, h, t, q, r) == [s |-> s, h |-> h, t |-> t, q |-> q, r |-> r]

Throw(c, error) == Effect(sessions, heap, timers, <<>>, Ret(c, error))

\* credits: correct guesses credited in the current round (since the last
\* startNewRound); phaseCredits, timeUp: correct guesses credited, and TIME_UP
\* written by the completion callback of the round timer, in the current
\* drawing phase (since the last start of the round timer); total: correct
\* guesses credited in all; words: per round, how often the Controller's
\* selectWordForRound had a word selected for it (0, 1, or 2 for more);
\* difficulty: the difficulty of the configuration the game was initialized
\* with (the session does not keep it)
NoHist ==
  [credits |-> 0, phaseCredits |-> 0, timeUp |-> FALSE, total |-> 0,
   words |-> [r \in 1..MaxRounds |-> 0], difficulty |-> Null]

----------------------------------------------------------------------------
(* Game service *)

\* index of the first entry of a player list with the given id, 0 if none
FindPlayer(players, playerId) ==
  IF \E i \in 1..Len(players) : players[i].id = playerId
    THEN CHOOSE i \in 1..Len(players) :
           /\ players[i].id = playerId
           /\ \A j \in 1..(i - 1) : players[j].id # playerId
    ELSE 0

\* the player object a currentDrawer reference points to
Deref(h, ref) == h[ref.gen][ref.idx]

\* a startNewRound that keeps the first player drawing
startNewRound_FirstPlayer(s, h, session) ==
  LET players == h[session.players]
      updatedPlayers ==
        [i \in 1..Len(players) |->
           [players[i] EXCEPT !.isDrawing = (players[i].id = players[1].id)]]
      updatedSession ==
        [session EXCEPT
           !.players = Len(h) + 1,
           !.currentDrawer = [gen |-> session.players, idx |-> 1],
           !.round = session.round + 1,
           !.state = DRAWING,
           !.timeRemaining = session.maxTime,
           !.currentWord = Null]
  IN [s |-> [s EXCEPT ![session.id] = updatedSession],
      h |-> Append(h, updatedPlayers),
      session |-> updatedSession]

\* GameService.startNewRound: the next drawer is an object of the session's
\* CURRENT player list; the updated list is a fresh copy of every object
startNewRound(s, h, session) ==
  LET nextRound == session.round + 1
      players == h[session.players]
      drawerIndex == ((nextRound - 1) % Len(players)) + 1
      nextDrawer == players[drawerIndex]
      updatedPlayers ==
        [i \in 1..Len(players) |->
           [players[i] EXCEPT !.isDrawing = (players[i].id = nextDrawer.id)]]
      updatedSession ==
        [session EXCEPT
           !.players = Len(h) + 1,
           !.currentDrawer = [gen |-> session.players, idx |-> drawerIndex],
           !.round = nextRound,
           !.state = DRAWING,
           !.timeRemaining = session.maxTime,
           !.currentWord = Null]
  IN [s |-> [s EXCEPT ![session.id] = updatedSession],
      h |-> Append(h, updatedPlayers),
      session |-> updatedSession]

\* a startGame without its state check
startGame_AnyState(c) ==
  LET session == c.snap IN
  IF session = Null THEN Throw(c, "SessionNotFound")
  ELSE LET n == startNewRound(sessions, heap, session)
       IN Effect(n.s, n.h, timers, <<>>, Ret(c, "ok"))

\* GameService.startGame after its await
startGame(c) ==
  LET session == c.snap IN
  IF session = Null THEN Throw(c, "SessionNotFound")
  ELSE IF session.state # WAITING THEN Throw(c, "InvalidStateTransition")
  ELSE LET n == startNewRound(sessions, heap, session)
       IN Effect(n.s, n.h, timers, <<>>, Ret(c, "ok"))

\* GameService.startRoundTimer
startRoundTimer(s, t, sid) ==
  IF s[sid] = Null
    THEN [s |-> s, t |-> t, threw |-> FALSE]
    ELSE startTimer(s, t, sid, s[sid].maxTime)

\* GameService.selectWord after its first await: the word is drawn
selectWordDraw(c, word) ==
  LET session == c.snap IN
  IF session = Null THEN Throw(c, "SessionNotFound")
  ELSE Effect(sessions, heap, timers,
              <<[c EXCEPT !.stage = 2, !.word = word]>>, NoRet)

\* GameService.selectWord after its second await: the session captured at
\* call time is stored with the word, then the round timer is started
selectWordStore(c) ==
  LET updatedSession ==
        [c.snap EXCEPT !.currentWord = c.word, !.state = DRAWING]
      stored == [sessions EXCEPT ![c.sid] = updatedSession]
      started == startRoundTimer(stored, timers, c.sid)
  IN Effect(started.s, heap, started.t, <<>>,
            Ret(c, IF started.threw THEN "InvalidDuration" ELSE "ok"))

\* a state check that still accepts a guess after the time ran out
acceptsGuess_AlsoTimeUp(state) ==
  state = DRAWING \/ state = GUESSING \/ state = TIME_UP

\* the states in which submitGuess accepts a guess
acceptsGuess(state) == state = DRAWING \/ state = GUESSING

\* a drawer check that trusts the isDrawing flag of the currentDrawer object
isCurrentDrawer_ByFlag(h, session, playerId) ==
  /\ session.currentDrawer # Null
  /\ h[session.currentDrawer.gen][session.currentDrawer.idx].id = playerId
  /\ h[session.currentDrawer.gen][session.currentDrawer.idx].isDrawing

\* whether playerId is the id of the session's current drawer
isCurrentDrawer(h, session, playerId) ==
  /\ session.currentDrawer # Null
  /\ Deref(h, session.currentDrawer).id = playerId

\* GameService.submitGuess after its await
submitGuess(c) ==
  LET session == c.snap IN
  IF session = Null THEN Throw(c, "SessionNotFound")
  ELSE IF ~acceptsGuess(session.state)
    THEN Throw(c, "InvalidStateTransition")
  ELSE IF session.currentWord = Null THEN Throw(c, "NoActiveWord")
  ELSE
    LET pi == FindPlayer(heap[session.players], c.player) IN
    IF pi = 0 THEN Throw(c, "PlayerNotFound")
    ELSE IF isCurrentDrawer(heap, session, c.player)
      THEN Throw(c, "DrawerCannotGuess")
    ELSE IF validateGuess(c.guess, session.currentWord.word)
      THEN
        LET points ==
              calculateGuessPoints(session.timeRemaining, session.maxTime)
            h1 == [heap EXCEPT ![session.players][pi].score = JsAdd(@, points)]
            d == session.currentDrawer
            h2 == IF d # Null
                    THEN [h1 EXCEPT ![d.gen][d.idx].score =
                                      JsAdd(@, calculateDrawerPoints)]
                    ELSE h1
            updatedSession == [session EXCEPT !.state = CORRECT_GUESS]
        IN Effect([sessions EXCEPT ![c.sid] = updatedSession], h2,
                  stopTimer(timers, c.sid), <<>>, Ret(c, "true"))
      ELSE Effect(sessions, heap, timers, <<>>, Ret(c, "false"))

\* an endRound that leaves the round timer running
endRound_KeepsTimer(c) ==
  LET session == c.snap IN
  IF session = Null THEN Throw(c, "SessionNotFound")
  ELSE IF session.round >= session.maxRounds
    THEN Effect([sessions EXCEPT ![c.sid] =
                   [session EXCEPT !.state = GAME_OVER]],
                heap, timers, <<>>, Ret(c, "ok"))
    ELSE LET n == startNewRound(sessions, heap, session)
         IN Effect(n.s, n.h, timers, <<>>, Ret(c, "ok"))

\* GameService.endRound after its await
endRound(c) ==
  LET session == c.snap IN
  IF session = Null THEN Throw(c, "SessionNotFound")
  ELSE IF session.round >= session.maxRounds
    THEN Effect([sessions EXCEPT ![c.sid] =
                   [session EXCEPT !.state = GAME_OVER]],
                heap, stopTimer(timers, c.sid), <<>>, Ret(c, "ok"))
    ELSE LET n == startNewRound(sessions, heap, session)
         IN Effect(n.s, n.h, stopTimer(timers, c.sid), <<>>, Ret(c, "ok"))

\* GameService.updateGameState after its await: an unconditional overwrite
\* of the state of the session captured at call time
updateGameState(c) ==
  LET session == c.snap IN
  IF session = Null THEN Throw(c, "SessionNotFound")
  ELSE Effect([sessions EXCEPT ![c.sid] =
                 [session EXCEPT !.state = c.newState]],
              heap, timers, <<>>, Ret(c, "ok"))

----------------------------------------------------------------------------
(* Inputs *)

\* the configurations a caller supplies (nothing validates them)
\* the Difficulty enum
Difficulty == {"easy", "medium", "hard"}

Configs ==
  [maxTime : 0..MaxTime, maxRounds : 1..MaxRounds, difficulty : {"medium"}]

\* the games of SpecReset: two rounds of one second
ResetConfigs == [maxTime : {1}, maxRounds : {2}, difficulty : {"medium"}]

\* configurations with a negative maxTime or with maxRounds = 0, next to a
\* one-round game of one second
UncheckedConfigs ==
  [maxTime : {0 - 2, 1}, maxRounds : {0, 1}, difficulty : {"medium"}]

\* one-round games of every difficulty
DifficultyConfigs == [maxTime : {1}, maxRounds : {1}, difficulty : Difficulty]

Player(id, score, isDrawing) ==
  [id |-> id, score |-> score, isDrawing |-> isDrawing]

\* the player lists a caller supplies: too short, fresh records, and records
\* that carry a score and a drawing flag from elsewhere
PlayerLists ==
  { <<Player(1, 0, FALSE)>>,
    <<Player(1, 0, FALSE), Player(2, 0, FALSE)>>,
    <<Player(1, 70, TRUE), Player(2, 0, FALSE)>> }

\* a game long enough for the drawer to come round again: three players,
\* MaxRotation rounds of one second
RotationLists ==
  { <<Player(1, 0, FALSE), Player(2, 0, FALSE), Player(3, 0, FALSE)>> }

RotationConfigs ==
  [maxTime : {1}, maxRounds : {MaxRotation}, difficulty : {"medium"}]

\* the player ids a guess is submitted with (3 is unknown to a 2-player game)
PlayerIds == {1, 2, 3}

\* the states a caller forces with updateGameState (those the controller uses)
ForcedStates == {TIME_UP, GAME_OVER}

----------------------------------------------------------------------------
(* TimerService on its own.  Each startTimer creates a TimerData object,   *)
(* which the callback of its interval captures; `timers` maps a session id *)
(* to the object of its timer.  The callbacks passed to startTimer record  *)
(* their invocations, per object, in `calls`.                              *)

TimerIds == {"s1", "s2"}

\* no entry in the map; intervalId: null
NoTimer == 0
NoInterval == 0

\* a fresh TimerService
NoTimers ==
  [objects |-> <<>>, timers |-> [sid \in TimerIds |-> NoTimer],
   intervals |-> {}, calls |-> <<>>, nextId |-> 1]

\* the invocations a callback records
Tick(timeRemaining) == [cb |-> "onTick", arg |-> timeRemaining]
Complete == [cb |-> "onComplete", arg |-> 0]

\* the TimerData object startTimer creates
TimerData(sid, duration) ==
  [sessionId |-> sid, duration |-> duration, timeRemaining |-> duration,
   intervalId |-> NoInterval, isActive |-> TRUE]

clearInterval(ts, intervalId) ==
  [ts EXCEPT !.intervals = {x \in @ : x.id # intervalId}]

\* setInterval with the countdown callback for object i, and
\* timerData.intervalId = intervalId
setInterval(ts, i) ==
  [ts EXCEPT !.intervals = @ \cup {[id |-> ts.nextId, data |-> i]},
             !.objects[i].intervalId = ts.nextId,
             !.nextId = @ + 1]

\* a stopTimer that deletes the entry without clearing its interval
TimerService_stopTimer_NoClear(ts, sid) ==
  LET i == ts.timers[sid] IN
  IF i = NoTimer THEN ts
  ELSE [ts EXCEPT !.objects[i].isActive = FALSE, !.timers[sid] = NoTimer]

\* TimerService.stopTimer
TimerService_stopTimer(ts, sid) ==
  LET i == ts.timers[sid] IN
  IF i = NoTimer THEN ts
  ELSE LET timerData == ts.objects[i]
           cleared == IF timerData.intervalId # NoInterval
                        THEN clearInterval(ts, timerData.intervalId)
                        ELSE ts
       IN [cleared EXCEPT !.objects[i].isActive = FALSE,
                          !.timers[sid] = NoTimer]

\* a startTimer that does not stop the timer the session has
TimerService_startTimer_NoStop(ts, sid, duration) ==
  LET i == Len(ts.objects) + 1
      created ==
        [ts EXCEPT !.objects = Append(@, TimerData(sid, duration)),
                   !.calls = Append(@, <<Tick(duration)>>),
                   !.timers[sid] = i]
  IN IF duration <= 0
       THEN [ts |-> ts, result |-> "InvalidDuration"]
       ELSE [ts |-> setInterval(created, i), result |-> "ok"]

\* TimerService.startTimer
TimerService_startTimer(ts, sid, duration) ==
  LET stopped == TimerService_stopTimer(ts, sid)
      i == Len(ts.objects) + 1
      created ==
        [stopped EXCEPT !.objects = Append(@, TimerData(sid, duration)),
                        !.calls = Append(@, <<Tick(duration)>>),
                        !.timers[sid] = i]
  IN IF duration <= 0
       THEN [ts |-> stopped, result |-> "InvalidDuration"]
       ELSE [ts |-> setInterval(created, i), result |-> "ok"]

\* a countdown callback that leaves the clean-up out
TimerService_interval_NoCleanup(ts, x) ==
  LET i == x.data
      timerData == ts.objects[i]
      remaining == timerData.timeRemaining - 1
  IN IF ~timerData.isActive THEN ts
     ELSE IF remaining <= 0
       THEN [ts EXCEPT !.objects[i].timeRemaining = 0,
                       !.objects[i].isActive = FALSE,
                       !.calls[i] = @ \o <<Tick(0), Complete>>]
       ELSE [ts EXCEPT !.objects[i].timeRemaining = remaining,
                       !.calls[i] = Append(@, Tick(remaining))]

\* the countdown callback startTimer and resumeTimer pass to setInterval,
\* for the interval x
TimerService_interval(ts, x) ==
  LET i == x.data
      timerData == ts.objects[i]
      remaining == timerData.timeRemaining - 1
  IN IF ~timerData.isActive THEN ts
     ELSE IF remaining <= 0
       THEN TimerService_stopTimer(
              [ts EXCEPT !.objects[i].timeRemaining = 0,
                         !.objects[i].isActive = FALSE,
                         !.calls[i] = @ \o <<Tick(0), Complete>>],
              timerData.sessionId)
       ELSE [ts EXCEPT !.objects[i].timeRemaining = remaining,
                       !.calls[i] = Append(@, Tick(remaining))]

\* the countdown callback when the callback named by thrower throws: the
\* statements after the throwing call are not executed
TimerService_intervalThrows(ts, x, thrower) ==
  LET i == x.data
      timerData == ts.objects[i]
      remaining == timerData.timeRemaining - 1
  IN IF ~timerData.isActive THEN ts
     ELSE IF remaining <= 0
       THEN [ts EXCEPT !.objects[i].timeRemaining = 0,
                       !.objects[i].isActive = FALSE,
                       !.calls[i] = @ \o (IF thrower = "onTick"
                                            THEN <<Tick(0)>>
                                            ELSE <<Tick(0), Complete>>)]
       ELSE [ts EXCEPT !.objects[i].timeRemaining = remaining,
                       !.calls[i] = Append(@, Tick(remaining))]

\* TimerService.getRemainingTime
getRemainingTime(ts, sid) ==
  LET i == ts.timers[sid] IN
  IF i # NoTimer /\ ts.objects[i].isActive
    THEN ts.objects[i].timeRemaining
    ELSE Null

\* a pauseTimer that leaves the interval running
TimerService_pauseTimer_NoClear(ts, sid) ==
  LET i == ts.timers[sid] IN
  IF /\ i # NoTimer
     /\ ts.objects[i].isActive
     /\ ts.objects[i].intervalId # NoInterval
    THEN [ts |-> [ts EXCEPT !.objects[i].intervalId = NoInterval],
          result |-> "true"]
    ELSE [ts |-> ts, result |-> "false"]

\* TimerService.pauseTimer
TimerService_pauseTimer(ts, sid) ==
  LET i == ts.timers[sid] IN
  IF /\ i # NoTimer
     /\ ts.objects[i].isActive
     /\ ts.objects[i].intervalId # NoInterval
    THEN [ts |-> [clearInterval(ts, ts.objects[i].intervalId) EXCEPT
                    !.objects[i].intervalId = NoInterval],
          result |-> "true"]
    ELSE [ts |-> ts, result |-> "false"]

\* TimerService.resumeTimer
TimerService_resumeTimer(ts, sid) ==
  LET i == ts.timers[sid] IN
  IF /\ i # NoTimer
     /\ ts.objects[i].isActive
     /\ ts.objects[i].intervalId = NoInterval
    THEN [ts |-> setInterval(ts, i), result |-> "true"]
    ELSE [ts |-> ts, result |-> "false"]

\* a call of the service, or a firing of an interval: the rest of the
\* program is not involved
TimerStep(ts, op, sid, result) ==
  /\ timerService' = ts
  /\ ret' = [NoRet EXCEPT !.op = op, !.sid = sid, !.result = result]
  /\ UNCHANGED <<sessions, heap, timers, mq, hist, ctlVars, listeners, probe>>

StartTimer ==
  \E sid \in TimerIds, duration \in 0..MaxDuration :
    /\ timerService.nextId <= MaxIntervals
    /\ LET e == TimerService_startTimer(timerService, sid, duration)
       IN TimerStep(e.ts, "startTimer", sid, e.result)

StopTimer ==
  \E sid \in TimerIds :
    TimerStep(TimerService_stopTimer(timerService, sid), "stopTimer", sid,
              "ok")

PauseTimer ==
  \E sid \in TimerIds :
    LET e == TimerService_pauseTimer(timerService, sid)
    IN TimerStep(e.ts, "pauseTimer", sid, e.result)

ResumeTimer ==
  \E sid \in TimerIds :
    /\ timerService.nextId <= MaxIntervals
    /\ LET e == TimerService_resumeTimer(timerService, sid)
       IN TimerStep(e.ts, "resumeTimer", sid, e.result)

\* a second passed for one of the intervals that are set
IntervalFires ==
  \E x \in timerService.intervals :
    TimerStep(TimerService_interval(timerService, x), "interval",
              timerService.objects[x.data].sessionId, "none")

\* a second passed for one of the intervals that are set, and the onTick or
\* the onComplete callback throws when it is invoked
IntervalThrows ==
  \E x \in timerService.intervals, thrower \in {"onTick", "onComplete"} :
    TimerStep(TimerService_intervalThrows(timerService, x, thrower),
              "interval", timerService.objects[x.data].sessionId, "threw")

\* a fresh GameController has no handler, and nothing was delivered
NoListeners == [eventHandlers |-> <<>>, received |-> <<>>]

\* no pure function was evaluated
NoProbe == [fn |-> "none", args |-> <<>>, out |-> <<>>]

----------------------------------------------------------------------------
(* Initial state: a fresh GameService and TimerService *)

InitWith(ids) ==
  /\ sessions = [sid \in ids |-> Null]
  /\ heap = <<>>
  /\ timers = [sid \in ids |-> Null]
  /\ mq = <<>>
  /\ ret = NoRet
  /\ hist = NoHist
  /\ currentSession = Null
  /\ eventHandlers = FALSE
  /\ isInitialized = FALSE
  /\ chain = Null
  /\ tasks = <<>>
  /\ busy = FALSE
  /\ events = {}
  /\ timerService = NoTimers
  /\ listeners = NoListeners
  /\ probe = NoProbe

Init == InitWith(OneSession)

----------------------------------------------------------------------------
(* GameService.initializeGame: no await, so the whole method runs at call *)

\* an initializeGame that stores the supplied records as they are
initializedPlayers_AsSupplied(players) == players

\* the copy of the supplied records that initializeGame stores
initializedPlayers(players) ==
  [i \in 1..Len(players) |->
     [players[i] EXCEPT !.score = 0, !.isDrawing = FALSE]]

\* an initializeGame that does not count the players
initializeGame_AnyPlayers(sid, config, players) ==
  Effect([sessions EXCEPT ![sid] =
            [id |-> sid, players |-> Len(heap) + 1, currentWord |-> Null,
             currentDrawer |-> Null, state |-> WAITING,
             timeRemaining |-> config.maxTime, maxTime |-> config.maxTime,
             round |-> 0, maxRounds |-> config.maxRounds]],
         Append(heap, players), timers, <<>>,
         [op |-> "initializeGame", sid |-> sid, result |-> "ok",
          args |-> [NoArgs EXCEPT !.config = config, !.players = players]])

\* GameService.initializeGame
initializeGame(sid, config, players) ==
  IF Len(players) < 2
    THEN Effect(sessions, heap, timers, <<>>,
                [op |-> "initializeGame", sid |-> sid,
                 result |-> "InsufficientPlayers",
                 args |-> [NoArgs EXCEPT !.config = config,
                                         !.players = players]])
    ELSE
      LET session ==
            [id |-> sid,
             players |-> Len(heap) + 1,
             currentWord |-> Null,
             currentDrawer |-> Null,
             state |-> WAITING,
             timeRemaining |-> config.maxTime,
             maxTime |-> config.maxTime,
             round |-> 0,
             maxRounds |-> config.maxRounds]
      IN Effect([sessions EXCEPT ![sid] = session],
                Append(heap, initializedPlayers(players)), timers, <<>>,
                [op |-> "initializeGame", sid |-> sid, result |-> "ok",
                 args |-> [NoArgs EXCEPT !.config = config,
                                         !.players = players]])

\* the configurations tried with a number of players: the methods refuse
\* fewer than two before they look at the configuration, so one is enough
ForPlayers(n, configs) ==
  IF n < 2 THEN {CHOOSE config \in configs : TRUE} ELSE configs

\* generateSessionId, reached with two players or more, yields an id no
\* session has
InitializeGameWith(configs, lists) ==
  \E sid \in SessionIds, players \in lists :
  \E config \in ForPlayers(Len(players), configs) :
    /\ mq = <<>> /\ chain = Null
    /\ Len(players) < 2 \/ sessions[sid] = Null
    /\ LET e == initializeGame(sid, config, players) IN
         /\ sessions' = e.s
         /\ heap' = e.h
         /\ timers' = e.t
         /\ ret' = e.r
         /\ hist' = IF e.r.result = "ok"
                      THEN [hist EXCEPT !.difficulty = config.difficulty]
                      ELSE hist
    /\ UNCHANGED <<mq, ctlVars, aloneVars>>

InitializeGame(configs) == InitializeGameWith(configs, PlayerLists)

----------------------------------------------------------------------------
(* Calls: the synchronous prefix reads the store and suspends *)

Enqueue(c) ==
  /\ mq = <<>>
  /\ mq' = Append(mq, c)
  /\ ret' = NoRet
  /\ UNCHANGED <<sessions, heap, timers, hist, ctlVars, aloneVars>>

CallStartGame ==
  \E sid \in SessionIds : Enqueue(Cont("startGame", sid, sessions[sid]))

CallSelectWord ==
  \E sid \in SessionIds : Enqueue(Cont("selectWord", sid, sessions[sid]))

CallSubmitGuess ==
  \E sid \in SessionIds, playerId \in PlayerIds, guess \in Guesses :
    /\ hist.total < MaxCredits
    /\ Enqueue([Cont("submitGuess", sid, sessions[sid]) EXCEPT
               !.player = playerId, !.guess = guess])

CallEndRound ==
  \E sid \in SessionIds : Enqueue(Cont("endRound", sid, sessions[sid]))

CallUpdateGameState ==
  \E sid \in SessionIds, newState \in ForcedStates :
    Enqueue([Cont("updateGameState", sid, sessions[sid]) EXCEPT
               !.newState = newState])

----------------------------------------------------------------------------
(* Microtasks: the head of the queue runs to its next await or to its end *)

\* the history of the round after a continuation ran
HistAfter(c, e) ==
  IF Len(e.h) > Len(heap)
    THEN [NoHist EXCEPT !.total = hist.total, !.words = hist.words,
                        !.difficulty = hist.difficulty]
  ELSE IF c.op = "selectWord" /\ e.r.result = "ok"
    THEN [hist EXCEPT !.phaseCredits = 0, !.timeUp = FALSE]
  ELSE IF c.op = "submitGuess" /\ e.r.result = "true"
    THEN [hist EXCEPT !.credits = @ + 1, !.phaseCredits = @ + 1,
                      !.total = @ + 1]
  ELSE IF c.op = "updateGameState" /\ c.origin = "timer" /\ e.r.result = "ok"
    THEN [hist EXCEPT !.timeUp = TRUE]
  ELSE hist

\* the generations of player objects some session, stored or captured by a
\* pending continuation, still refers to
Refs(session) ==
  IF session = Null THEN {}
  ELSE {session.players} \cup
       (IF session.currentDrawer = Null THEN {} ELSE {session.currentDrawer.gen})

Live(s, q) ==
  UNION ({Refs(s[sid]) : sid \in SessionIds} \cup
         {Refs(q[i].snap) : i \in 1..Len(q)} \cup
         {Refs(currentSession)})

\* objects nothing refers to are dropped from the heap (their slot is kept)
Collect(h, s, q) ==
  [g \in 1..Len(h) |-> IF g \in Live(s, q) THEN h[g] ELSE <<>>]

Apply(c, e) ==
  /\ sessions' = e.s
  /\ timers' = e.t
  /\ mq' = Tail(mq) \o e.q
  /\ heap' = Collect(e.h, e.s, Tail(mq) \o e.q)
  /\ ret' = e.r
  /\ hist' = HistAfter(c, e)
  /\ UNCHANGED <<ctlVars, aloneVars>>

RunStartGame ==
  /\ mq # <<>> /\ Head(mq).op = "startGame"
  /\ Apply(Head(mq), startGame(Head(mq)))

RunSelectWordDraw ==
  /\ mq # <<>> /\ Head(mq).op = "selectWord" /\ Head(mq).stage = 1
  /\ \E word \in getRandomWord("medium") :
       Apply(Head(mq), selectWordDraw(Head(mq), word))

RunSelectWordStore ==
  /\ mq # <<>> /\ Head(mq).op = "selectWord" /\ Head(mq).stage = 2
  /\ Apply(Head(mq), selectWordStore(Head(mq)))

RunSubmitGuess ==
  /\ mq # <<>> /\ Head(mq).op = "submitGuess"
  /\ Apply(Head(mq), submitGuess(Head(mq)))

RunEndRound ==
  /\ mq # <<>> /\ Head(mq).op = "endRound"
  /\ Apply(Head(mq), endRound(Head(mq)))

RunUpdateGameState ==
  /\ mq # <<>> /\ Head(mq).op = "updateGameState"
  /\ Apply(Head(mq), updateGameState(Head(mq)))

----------------------------------------------------------------------------
(* The interval callback of TimerService.startTimer *)

\* one firing of the interval: count down, tick, and at zero tick 0, call
\* onComplete (whose updateGameState reads the store now and suspends) and
\* stop the timer
intervalCallback(sid) ==
  LET timerData == timers[sid]
      remaining == timerData.timeRemaining - 1
  IN IF ~timerData.isActive
       THEN Effect(sessions, heap, timers, <<>>, NoRet)
     ELSE IF remaining <= 0
       THEN LET ticked == onTick(sessions, sid, 0) IN
            Effect(ticked, heap, stopTimer(timers, sid),
                   <<[Cont("updateGameState", sid, ticked[sid]) EXCEPT
                        !.newState = TIME_UP, !.origin = "timer"]>>,
                   [NoRet EXCEPT !.op = "onComplete"])
       ELSE Effect(onTick(sessions, sid, remaining), heap,
                   [timers EXCEPT ![sid].timeRemaining = remaining],
                   <<>>, [NoRet EXCEPT !.op = "onTick"])

TimerInterval ==
  \E sid \in SessionIds :
    /\ mq = <<>> /\ chain = Null
    /\ timers[sid] # Null
    /\ timers[sid].interval
    /\ LET e == intervalCallback(sid) IN
         /\ sessions' = e.s
         /\ heap' = e.h
         /\ timers' = e.t
         /\ mq' = mq \o e.q
         /\ ret' = e.r
    /\ UNCHANGED <<hist, ctlVars, aloneVars>>

----------------------------------------------------------------------------
(* GameController.  A method runs from the macrotask that called it to its *)
(* first await of an Engine call (the call is queued, `chain` remembers    *)
(* the method), resumes when the call has returned or thrown, and at an    *)
(* await of the AnimationService leaves a setTimeout callback in `tasks`.  *)
(* Timeouts fire in any order: their durations are not modelled.           *)

GAME_STARTED == "game_started"
WORD_SELECTED == "word_selected"
DRAWING_STARTED == "drawing_started"
GUESS_SUBMITTED == "guess_submitted"
CORRECT_GUESS_EVENT == "correct_guess"
ROUND_ENDED == "round_ended"
TIME_UP_EVENT == "time_up"
GAME_ENDED == "game_ended"

\* GameModelFactory.createPlayersFromNames, for n non-empty names
createPlayersFromNames(n) == [i \in 1..n |-> Player(i, 0, FALSE)]

\* GameModelFactory.createDefaultGameConfig: { ...defaultConfig, ...overrides }
defaultConfig == [maxTime |-> 60, maxRounds |-> 5, difficulty |-> "medium"]

createDefaultGameConfig(overrides) ==
  [f \in DOMAIN defaultConfig |->
     IF f \in DOMAIN overrides THEN overrides[f] ELSE defaultConfig[f]]

\* GameUtils.shouldGameEnd
shouldGameEnd(session) == session.round >= session.maxRounds

\* Math.max(...scores) of a non-empty list: NaN as soon as one score is NaN
MathMax(scores) ==
  IF \E i \in 1..Len(scores) : scores[i] = NaN
    THEN NaN
    ELSE CHOOSE m \in {scores[i] : i \in 1..Len(scores)} :
           \A i \in 1..Len(scores) : scores[i] <= m

\* a === b for two numbers: NaN is equal to nothing, itself included
StrictEquals(a, b) == a # NaN /\ b # NaN /\ a = b

\* GameUtils.getWinners: [] for an empty list, else the entries whose score
\* === Math.max of the scores, in the order of the list
getWinners(players) ==
  IF Len(players) = 0
    THEN <<>>
    ELSE LET maxScore == MathMax([i \in 1..Len(players) |-> players[i].score])
         IN SelectSeq(players, LAMBDA p : StrictEquals(p.score, maxScore))

\* GameController.emitEvent: every registered handler receives the event;
\* the listener keeps it with the round of the cached session
emitEvent(log, event, cached) ==
  IF eventHandlers
    THEN log \cup {[event |-> event,
                    round |-> IF cached = Null THEN 0 ELSE cached.round]}
    ELSE log

\* endGame's emitEvent(GAME_ENDED, { session, winners }): the listener keeps
\* the ids of the winners too
emitGameEnded(log, cached, winners) ==
  IF eventHandlers
    THEN log \cup {[event |-> GAME_ENDED, round |-> cached.round,
                    winners |-> [i \in 1..Len(winners) |-> winners[i].id]]}
    ELSE log

\* no macrotask is running and no microtask is pending
Idle == mq = <<>> /\ chain = Null

\* a caller calls a Controller method: it awaits the method it called before
CallerReady == Idle /\ ~busy /\ Len(tasks) < MaxTasks

\* the method awaits an Engine call on the cached session id
AwaitEngine(c, pc, caller) ==
  /\ mq' = <<c>>
  /\ chain' = [pc |-> pc, caller |-> caller]

\* the method returns or throws to whoever awaits it
Return(caller) ==
  /\ chain' = Null
  /\ busy' = IF caller THEN FALSE ELSE busy

\* AnimationService.playAnimationForState awaited by a method: it throws
\* unless initialized, else the method resumes in the animation's timeout
PlayAnimation(kind, caller, pending) ==
  IF isInitialized
    THEN /\ tasks' = Append(pending, [kind |-> kind, caller |-> caller])
         /\ chain' = Null
         /\ UNCHANGED busy
    ELSE /\ tasks' = pending
         /\ Return(caller)

\* GameController.addEventListener
AddEventListener ==
  /\ Idle /\ ~eventHandlers
  /\ eventHandlers' = TRUE
  /\ ret' = NoRet
  /\ UNCHANGED <<sessions, heap, timers, mq, hist, currentSession,
                 isInitialized, chain, tasks, busy, events, aloneVars>>

\* GameController.initializeGame up to its await of
\* animationService.initialize (whose timeout is left pending)
CtlInitializeGameWith(configs) ==
  \E sid \in SessionIds, n \in 1..2 :
  \E config \in ForPlayers(n, configs) :
    /\ CallerReady
    /\ n < 2 \/ sessions[sid] = Null
    /\ IF n < 2
         THEN /\ ret' = [NoRet EXCEPT !.op = "Controller.initializeGame",
                                      !.result = "InsufficientPlayers",
                                      !.args.names = n]
              /\ UNCHANGED <<sessions, heap, timers, hist, currentSession,
                             tasks, busy>>
         ELSE LET gameConfig == createDefaultGameConfig(config)
                  e == initializeGame(sid, gameConfig,
                                      createPlayersFromNames(n))
              IN /\ sessions' = e.s
                 /\ heap' = e.h
                 /\ timers' = e.t
                 /\ ret' = e.r
                 /\ hist' = [hist EXCEPT !.difficulty = gameConfig.difficulty]
                 /\ currentSession' = e.s[sid]
                 /\ tasks' = Append(tasks, [kind |-> "load", caller |-> TRUE])
                 /\ busy' = TRUE
    /\ UNCHANGED <<mq, eventHandlers, isInitialized, chain, events,
                   aloneVars>>

CtlInitializeGame == CtlInitializeGameWith(Configs)

\* GameController.initializeGame called again: the Engine creates a session
\* under a fresh id and the Controller caches it.  The session it replaces
\* and its timer stay in the Engine under the old id, which nothing uses
\* any more; the model keeps the new session in its place.  The timeouts
\* that are pending stay pending
CtlInitializeGameAgain ==
  \E sid \in SessionIds, config \in ResetConfigs :
    /\ CallerReady
    /\ sessions[sid] # Null
    /\ Len(heap) < MaxLists
    /\ LET gameConfig == createDefaultGameConfig(config)
           e == initializeGame(sid, gameConfig, createPlayersFromNames(2))
       IN /\ sessions' = e.s
          /\ heap' = Collect(e.h, e.s, <<>>)
          /\ timers' = [e.t EXCEPT ![sid] = Null]
          /\ ret' = e.r
          /\ hist' = [NoHist EXCEPT !.total = hist.total,
                                    !.difficulty = gameConfig.difficulty]
          /\ currentSession' = e.s[sid]
          /\ tasks' = Append(tasks, [kind |-> "load", caller |-> TRUE])
          /\ busy' = TRUE
    /\ UNCHANGED <<mq, eventHandlers, isInitialized, chain, events,
                   aloneVars>>

\* the call of a Controller method that starts with an Engine call
CtlCall(c, pc, caller) ==
  /\ IF currentSession = Null
       THEN /\ ret' = [NoRet EXCEPT !.op = "Controller",
                                    !.result = "NoActiveSession"]
            /\ UNCHANGED <<mq, chain, busy>>
       ELSE /\ AwaitEngine(c, pc, caller)
            /\ busy' = (busy \/ caller)
            /\ ret' = NoRet
  /\ UNCHANGED <<sessions, heap, timers, hist, currentSession, eventHandlers,
                 isInitialized, events, aloneVars>>

\* the continuation of the Engine method the Controller calls for the
\* cached session: it captures what is stored now
EngineCall(op) ==
  IF currentSession = Null THEN Null
  ELSE Cont(op, currentSession.id, sessions[currentSession.id])

\* GameController.startGame up to its await of gameService.startGame
CtlStartGame ==
  /\ CallerReady
  /\ CtlCall(EngineCall("startGame"), "startGame", TRUE)
  /\ UNCHANGED tasks

\* GameController.submitGuess up to its await of gameService.submitGuess
CtlSubmitGuess ==
  \E playerId \in PlayerIds, guess \in Guesses :
    /\ CallerReady
    /\ hist.total < MaxCredits
    /\ CtlCall(IF currentSession = Null THEN Null
               ELSE [EngineCall("submitGuess") EXCEPT
                       !.player = playerId, !.guess = guess],
               "submitGuess", TRUE)
    /\ UNCHANGED tasks

\* GameController.handleTimeUp up to its await of updateGameState, called
\* by a driver that has no session or watches the stored session run out of
\* time
CtlHandleTimeUp ==
  /\ CallerReady
  /\ IF currentSession = Null THEN TRUE
     ELSE /\ sessions[currentSession.id].state = TIME_UP
          /\ sessions[currentSession.id].timeRemaining = 0
  /\ CtlCall(IF currentSession = Null THEN Null ELSE
             [EngineCall("updateGameState") EXCEPT !.newState = TIME_UP],
             "handleTimeUp", TRUE)
  /\ UNCHANGED tasks

\* GameController.endRound called by a caller, up to its await of
\* gameService.endRound
CtlEndRound ==
  /\ CallerReady
  /\ CtlCall(EngineCall("endRound"), "endRound", TRUE)
  /\ UNCHANGED tasks

\* GameController.endGame called by a caller, up to its await of
\* updateGameState
CtlEndGame ==
  /\ CallerReady
  /\ CtlCall(IF currentSession = Null THEN Null ELSE
             [EngineCall("updateGameState") EXCEPT !.newState = GAME_OVER],
             "endGame", TRUE)
  /\ UNCHANGED tasks

\* a reset that keeps the cached session
reset_KeepsSession ==
  [currentSession |-> currentSession, eventHandlers |-> FALSE]

\* GameController.reset: the fields it assigns (animationService.stop()
\* leaves the service initialized)
reset == [currentSession |-> Null, eventHandlers |-> FALSE]

\* a caller that awaits nothing calls reset; the timeouts that are pending
\* stay pending
CtlReset ==
  /\ Idle /\ ~busy
  /\ currentSession' = reset.currentSession
  /\ eventHandlers' = reset.eventHandlers
  /\ ret' = [NoRet EXCEPT !.op = "Controller.reset", !.result = "ok"]
  /\ UNCHANGED <<sessions, heap, timers, mq, hist, isInitialized, chain,
                 tasks, busy, events, aloneVars>>

----------------------------------------------------------------------------
(* Controller methods resumed after the Engine call they awaited *)

\* the awaited Engine call threw: the method logs and rethrows
Rethrow ==
  /\ Return(chain.caller)
  /\ UNCHANGED <<mq, currentSession, tasks, events>>

\* GameController.selectWordForRound up to its await of selectWord
SelectWordForRound ==
  /\ AwaitEngine(Cont("selectWord", currentSession'.id,
                      sessions[currentSession'.id]),
                 "selectWordForRound", chain.caller)
  /\ UNCHANGED <<tasks, busy>>

\* GameController.startGame after gameService.startGame returned
AfterStartGame ==
  IF ret.result # "ok" THEN Rethrow
  ELSE /\ currentSession' = sessions[ret.sid]
       /\ SelectWordForRound
       /\ UNCHANGED events

\* GameController.selectWordForRound after selectWord returned: the session
\* is read again and the DRAWING animation is awaited
AfterSelectWord ==
  IF ret.result # "ok" THEN Rethrow /\ UNCHANGED hist
  ELSE /\ currentSession' = sessions[ret.sid]
       /\ PlayAnimation("drawing", chain.caller, tasks)
       /\ hist' = [hist EXCEPT !.words[sessions[ret.sid].round] =
                                  IF @ < 2 THEN @ + 1 ELSE 2]
       /\ UNCHANGED <<mq, events>>

\* GameController.submitGuess after gameService.submitGuess returned
AfterSubmitGuess ==
  IF ret.result \notin {"true", "false"} THEN Rethrow
  ELSE /\ currentSession' = sessions[ret.sid]
       /\ events' = emitEvent(events, GUESS_SUBMITTED, sessions[ret.sid])
       /\ IF ret.result = "true"
            THEN PlayAnimation("correctGuess", chain.caller, tasks)
            ELSE Return(chain.caller) /\ UNCHANGED tasks
       /\ UNCHANGED mq

\* GameController.endGame up to its await of updateGameState
EndGame ==
  /\ AwaitEngine([Cont("updateGameState", currentSession'.id,
                       sessions[currentSession'.id])
                    EXCEPT !.newState = GAME_OVER],
                 "endGame", chain.caller)
  /\ UNCHANGED <<tasks, busy>>

\* GameController.endRound after gameService.endRound returned
AfterEndRound ==
  IF ret.result # "ok" THEN Rethrow
  ELSE /\ currentSession' = sessions[ret.sid]
       /\ events' = emitEvent(events, ROUND_ENDED, sessions[ret.sid])
       /\ IF shouldGameEnd(currentSession')
            THEN EndGame
            ELSE SelectWordForRound

\* GameController.handleTimeUp after updateGameState returned
AfterHandleTimeUp ==
  IF ret.result # "ok" THEN Rethrow
  ELSE /\ currentSession' = sessions[ret.sid]
       /\ PlayAnimation("timeUp", chain.caller, tasks)
       /\ UNCHANGED <<mq, events>>

\* GameController.endGame after updateGameState returned
AfterEndGame ==
  IF ret.result # "ok" THEN Rethrow
  ELSE /\ currentSession' = sessions[ret.sid]
       /\ PlayAnimation("gameOver", chain.caller, tasks)
       /\ UNCHANGED <<mq, events>>

Resume ==
  /\ chain # Null /\ mq = <<>>
  /\ CASE chain.pc = "startGame" -> AfterStartGame /\ UNCHANGED hist
       [] chain.pc = "selectWordForRound" -> AfterSelectWord
       [] chain.pc = "submitGuess" -> AfterSubmitGuess /\ UNCHANGED hist
       [] chain.pc = "endRound" -> AfterEndRound /\ UNCHANGED hist
       [] chain.pc = "handleTimeUp" -> AfterHandleTimeUp /\ UNCHANGED hist
       [] chain.pc = "endGame" -> AfterEndGame /\ UNCHANGED hist
  /\ UNCHANGED <<sessions, heap, timers, ret, eventHandlers, isInitialized,
                 aloneVars>>

----------------------------------------------------------------------------
(* setTimeout callbacks *)

\* the pending timeouts without the i-th
Without(i) == SubSeq(tasks, 1, i - 1) \o SubSeq(tasks, i + 1, Len(tasks))

\* simulateRiveFileLoad's timeout: initialize completes, and initializeGame
\* awaits the WAITING animation
AnimationLoaded(i) ==
  /\ isInitialized' = TRUE
  /\ tasks' = Append(Without(i), [kind |-> "waiting", caller |-> tasks[i].caller])
  /\ UNCHANGED <<mq, currentSession, chain, busy, events>>

\* the WAITING animation's timeout: initializeGame emits GAME_STARTED
WaitingPlayed(i) ==
  /\ events' = emitEvent(events, GAME_STARTED, currentSession)
  /\ tasks' = Without(i)
  /\ Return(tasks[i].caller)
  /\ UNCHANGED <<mq, currentSession, isInitialized>>

\* the DRAWING animation's timeout: selectWordForRound reads
\* this.currentSession.currentDrawer and emits its two events
DrawingPlayed(i) ==
  /\ events' = IF currentSession = Null THEN events
               ELSE emitEvent(emitEvent(events, WORD_SELECTED, currentSession),
                              DRAWING_STARTED, currentSession)
  /\ tasks' = Without(i)
  /\ Return(tasks[i].caller)
  /\ UNCHANGED <<mq, currentSession, isInitialized>>

\* a CORRECT_GUESS timeout that schedules endRound twice
CorrectGuessPlayed_Twice(i) ==
  /\ events' = emitEvent(events, CORRECT_GUESS_EVENT, currentSession)
  /\ tasks' = Without(i) \o <<[kind |-> "endRound", caller |-> FALSE],
                              [kind |-> "endRound", caller |-> FALSE]>>
  /\ Return(tasks[i].caller)
  /\ UNCHANGED <<mq, currentSession, isInitialized>>

\* the CORRECT_GUESS animation's timeout: submitGuess emits CORRECT_GUESS
\* and schedules endRound
CorrectGuessPlayed(i) ==
  /\ events' = emitEvent(events, CORRECT_GUESS_EVENT, currentSession)
  /\ tasks' = Append(Without(i), [kind |-> "endRound", caller |-> FALSE])
  /\ Return(tasks[i].caller)
  /\ UNCHANGED <<mq, currentSession, isInitialized>>

\* the TIME_UP animation's timeout: handleTimeUp emits TIME_UP and
\* schedules endRound
TimeUpPlayed(i) ==
  /\ events' = emitEvent(events, TIME_UP_EVENT, currentSession)
  /\ tasks' = Append(Without(i), [kind |-> "endRound", caller |-> FALSE])
  /\ Return(tasks[i].caller)
  /\ UNCHANGED <<mq, currentSession, isInitialized>>

\* the GAME_OVER animation's timeout: endGame reads
\* this.currentSession.players for the winners and emits GAME_ENDED
GameOverPlayed(i) ==
  /\ events' = IF currentSession = Null THEN events
               ELSE emitGameEnded(events, currentSession,
                                  getWinners(heap[currentSession.players]))
  /\ tasks' = Without(i)
  /\ Return(tasks[i].caller)
  /\ UNCHANGED <<mq, currentSession, isInitialized>>

\* the delayed callback of submitGuess and handleTimeUp:
\* GameController.endRound up to its await of gameService.endRound
EndRoundTimeout(i) ==
  /\ tasks' = Without(i)
  /\ IF currentSession = Null
       THEN UNCHANGED <<mq, chain>>
       ELSE AwaitEngine(EngineCall("endRound"), "endRound", FALSE)
  /\ UNCHANGED <<currentSession, isInitialized, busy, events>>

Timeout ==
  \E i \in 1..Len(tasks) :
    /\ Idle
    /\ CASE tasks[i].kind = "load" -> AnimationLoaded(i)
         [] tasks[i].kind = "waiting" -> WaitingPlayed(i)
         [] tasks[i].kind = "drawing" -> DrawingPlayed(i)
         [] tasks[i].kind = "correctGuess" -> CorrectGuessPlayed(i)
         [] tasks[i].kind = "timeUp" -> TimeUpPlayed(i)
         [] tasks[i].kind = "gameOver" -> GameOverPlayed(i)
         [] tasks[i].kind = "endRound" -> EndRoundTimeout(i)
    /\ ret' = NoRet
    /\ UNCHANGED <<sessions, heap, timers, hist, eventHandlers, aloneVars>>

----------------------------------------------------------------------------
(* The listener list of a GameController on its own.  A handler is an      *)
(* object with an onGameEvent method; the handlers of the model record the *)
(* events they are called with, and one of them throws after that.         *)

Handlers ==
  { [id |-> 1, throws |-> TRUE],
    [id |-> 2, throws |-> FALSE],
    [id |-> 3, throws |-> FALSE] }

GameEvent ==
  { GAME_STARTED, WORD_SELECTED, DRAWING_STARTED, GUESS_SUBMITTED,
    CORRECT_GUESS_EVENT, ROUND_ENDED, TIME_UP_EVENT, GAME_ENDED }

\* Array.prototype.indexOf, with positions from 1 and 0 for "not found"
indexOf(array, x) ==
  IF \E i \in 1..Len(array) : array[i] = x
    THEN CHOOSE i \in 1..Len(array) :
           array[i] = x /\ \A j \in 1..(i - 1) : array[j] # x
    ELSE 0

\* Array.prototype.splice(index, 1)
splice(array, index) ==
  SubSeq(array, 1, index - 1) \o SubSeq(array, index + 1, Len(array))

\* GameController.addEventListener
addEventListener(ls, handler) ==
  [ls EXCEPT !.eventHandlers = Append(@, handler)]

\* GameController.removeEventListener
removeEventListener(ls, handler) ==
  LET index == indexOf(ls.eventHandlers, handler) IN
  IF index > 0
    THEN [ls EXCEPT !.eventHandlers = splice(@, index)]
    ELSE ls

\* the loop of an emitEvent without try/catch: the first handler that
\* throws ends it, and the exception leaves emitEvent
RECURSIVE dispatch_NoCatch(_, _, _, _)
dispatch_NoCatch(handlers, k, event, received) ==
  IF k > Len(handlers) THEN [received |-> received, threw |-> FALSE]
  ELSE LET called ==
             Append(received, [handler |-> handlers[k].id, event |-> event])
       IN IF handlers[k].throws
            THEN [received |-> called, threw |-> TRUE]
            ELSE dispatch_NoCatch(handlers, k + 1, event, called)

\* the loop of GameController.emitEvent from the k-th handler on: the
\* handler is called with the event, and what it throws is caught and logged
RECURSIVE dispatch(_, _, _, _)
dispatch(handlers, k, event, received) ==
  IF k > Len(handlers) THEN [received |-> received, threw |-> FALSE]
  ELSE LET called ==
             Append(received, [handler |-> handlers[k].id, event |-> event])
       IN IF handlers[k].throws
            THEN dispatch(handlers, k + 1, event, called)
            ELSE dispatch(handlers, k + 1, event, called)

\* the reset of the listener list in GameController.reset
resetListeners(ls) == [ls EXCEPT !.eventHandlers = <<>>]

\* a step of the listener list: `received` holds what the step delivered
ListenerStep(ls, received, op, result) ==
  /\ listeners' = [ls EXCEPT !.received = received]
  /\ ret' = [NoRet EXCEPT !.op = op, !.result = result]
  /\ UNCHANGED <<sessions, heap, timers, mq, hist, ctlVars, timerService,
                 probe>>

AddListener ==
  \E handler \in Handlers :
    /\ Len(listeners.eventHandlers) < MaxListeners
    /\ ListenerStep(addEventListener(listeners, handler), <<>>,
                    "addEventListener", "ok")

RemoveListener ==
  \E handler \in Handlers :
    ListenerStep(removeEventListener(listeners, handler), <<>>,
                 "removeEventListener", "ok")

\* an operation of the Controller reaches a call of emitEvent
EmitEvent ==
  \E event \in GameEvent :
    LET d == dispatch(listeners.eventHandlers, 1, event, <<>>)
    IN ListenerStep(listeners, d.received, "emitEvent",
                    IF d.threw THEN "threw" ELSE "ok")

ResetListeners ==
  ListenerStep(resetListeners(listeners), <<>>, "reset", "ok")

\* the load of the animation file fails: AnimationService.initialize
\* rejects and initializeGame catches it, the playAnimationForState(WAITING)
\* it awaits next throws (not initialized) and is caught too, and
\* initializeGame emits GAME_STARTED
AnimationLoadFails ==
  \E i \in 1..Len(tasks) :
    /\ Idle
    /\ tasks[i].kind = "load"
    /\ events' = emitEvent(events, GAME_STARTED, currentSession)
    /\ tasks' = Without(i)
    /\ Return(tasks[i].caller)
    /\ ret' = NoRet
    /\ UNCHANGED <<sessions, heap, timers, mq, hist, currentSession,
                   eventHandlers, isInitialized, aloneVars>>

----------------------------------------------------------------------------
(* Specification of the Engine: a caller calls its operations one at a     *)
(* time, in any order, and the interval of the round timer fires between   *)
(* them.                                                                   *)

Next ==
  \/ InitializeGame(Configs)
  \/ CallStartGame
  \/ CallSelectWord
  \/ CallSubmitGuess
  \/ CallEndRound
  \/ CallUpdateGameState
  \/ RunStartGame
  \/ RunSelectWordDraw
  \/ RunSelectWordStore
  \/ RunSubmitGuess
  \/ RunEndRound
  \/ RunUpdateGameState
  \/ TimerInterval

Spec == Init /\ [][Next]_vars

----------------------------------------------------------------------------
(* Specification of the Controller: a caller registers a listener and      *)
(* drives a game through the Controller, one method at a time; timeouts    *)
(* and the interval of the round timer fire between the calls.             *)

\* the steps the event loop takes by itself: microtasks, timeouts, interval
Scheduled ==
  \/ RunStartGame
  \/ RunSelectWordDraw
  \/ RunSelectWordStore
  \/ RunSubmitGuess
  \/ RunEndRound
  \/ RunUpdateGameState
  \/ Resume
  \/ Timeout
  \/ TimerInterval

NextController ==
  \/ AddEventListener
  \/ CtlInitializeGame
  \/ CtlStartGame
  \/ CtlSubmitGuess
  \/ CtlHandleTimeUp
  \/ Scheduled

SpecController == Init /\ [][NextController]_vars

\* every step the event loop can take by itself is eventually taken; the
\* calls of the caller are not
SpecControllerFair == SpecController /\ WF_vars(Scheduled)

----------------------------------------------------------------------------
(* Specification of the Controller with reset: the caller also resets the  *)
(* Controller between its calls, and calls endRound and endGame itself.    *)

NextReset ==
  \/ AddEventListener
  \/ CtlInitializeGameWith(ResetConfigs)
  \/ CtlStartGame
  \/ CtlSubmitGuess
  \/ CtlHandleTimeUp
  \/ Scheduled
  \/ CtlEndRound
  \/ CtlEndGame
  \/ CtlReset

SpecReset == Init /\ [][NextReset]_vars

----------------------------------------------------------------------------
(* Specification of the Controller with several games: the caller resets   *)
(* the Controller and initializes a new game between its calls.            *)

NextAgain ==
  \/ AddEventListener
  \/ CtlInitializeGameWith(ResetConfigs)
  \/ CtlInitializeGameAgain
  \/ CtlStartGame
  \/ CtlSubmitGuess
  \/ CtlHandleTimeUp
  \/ Scheduled
  \/ CtlReset

SpecAgain == Init /\ [][NextAgain]_vars

----------------------------------------------------------------------------
(* Specification of an Engine whose caller does not await: it calls an     *)
(* operation while the continuations of earlier calls are still pending.   *)
(* Each call reads the store in its synchronous prefix, and the            *)
(* continuations run in the order of the microtask queue.                  *)

\* a caller has at most this many Engine calls in flight
MaxPending == 2

\* a call of selectWord or updateGameState made while another call is
\* suspended at its await
CallWhilePending ==
  \E sid \in SessionIds :
  \E c \in {Cont("selectWord", sid, sessions[sid])}
        \cup {[Cont("updateGameState", sid, sessions[sid]) EXCEPT
                 !.newState = newState] : newState \in ForcedStates} :
    /\ mq # <<>> /\ Len(mq) < MaxPending
    /\ mq' = Append(mq, c)
    /\ ret' = NoRet
    /\ UNCHANGED <<sessions, heap, timers, hist, ctlVars, aloneVars>>

NextInterleaved ==
  \/ InitializeGameWith(ResetConfigs, {createPlayersFromNames(2)})
  \/ CallStartGame
  \/ CallSelectWord
  \/ CallUpdateGameState
  \/ CallWhilePending
  \/ RunStartGame
  \/ RunSelectWordDraw
  \/ RunSelectWordStore
  \/ RunUpdateGameState
  \/ TimerInterval

SpecInterleaved == Init /\ [][NextInterleaved]_vars

----------------------------------------------------------------------------
(* Specification of two games in one Engine: a caller awaits each call,    *)
(* and calls the operations on either session, in any order; the intervals *)
(* of both round timers fire between the calls.                            *)

\* the games of SpecTwo: one round of one second
TwoConfigs == [maxTime : {1}, maxRounds : {1}, difficulty : {"medium"}]

NextTwo ==
  \/ InitializeGameWith(TwoConfigs, {createPlayersFromNames(2)})
  \/ CallStartGame
  \/ CallSelectWord
  \/ CallSubmitGuess
  \/ RunStartGame
  \/ RunSelectWordDraw
  \/ RunSelectWordStore
  \/ RunSubmitGuess
  \/ RunUpdateGameState
  \/ TimerInterval

SpecTwo == InitWith(TwoSessions) /\ [][NextTwo]_vars

----------------------------------------------------------------------------
(* Specification of both entries: games are initialized through the Engine *)
(* or through the Controller, and driven through the Controller.           *)

NextBoth ==
  \/ InitializeGame(Configs)
  \/ NextController

SpecBoth == Init /\ [][NextBoth]_vars

----------------------------------------------------------------------------
(* Specification of the rotation: the Engine runs one three-player game of *)
(* MaxRotation rounds.                                                     *)

NextRotation ==
  \/ InitializeGameWith(RotationConfigs, RotationLists)
  \/ CallStartGame
  \/ CallSelectWord
  \/ CallSubmitGuess
  \/ CallEndRound
  \/ CallUpdateGameState
  \/ RunStartGame
  \/ RunSelectWordDraw
  \/ RunSelectWordStore
  \/ RunSubmitGuess
  \/ RunEndRound
  \/ RunUpdateGameState
  \/ TimerInterval

SpecRotation == Init /\ [][NextRotation]_vars

----------------------------------------------------------------------------
(* Specification of the difficulties: the Engine runs one-round games      *)
(* initialized with each difficulty.                                       *)

NextDifficulty ==
  \/ InitializeGame(DifficultyConfigs)
  \/ CallStartGame
  \/ CallSelectWord
  \/ CallSubmitGuess
  \/ CallEndRound
  \/ CallUpdateGameState
  \/ RunStartGame
  \/ RunSelectWordDraw
  \/ RunSelectWordStore
  \/ RunSubmitGuess
  \/ RunEndRound
  \/ RunUpdateGameState
  \/ TimerInterval

SpecDifficulty == Init /\ [][NextDifficulty]_vars

----------------------------------------------------------------------------
(* Specification of the Engine with configurations nothing has checked:    *)
(* initializeGame accepts every configuration.                             *)

NextUnchecked ==
  \/ InitializeGame(UncheckedConfigs)
  \/ CallStartGame
  \/ CallSelectWord
  \/ CallSubmitGuess
  \/ CallEndRound
  \/ CallUpdateGameState
  \/ RunStartGame
  \/ RunSelectWordDraw
  \/ RunSelectWordStore
  \/ RunSubmitGuess
  \/ RunEndRound
  \/ RunUpdateGameState
  \/ TimerInterval

SpecUnchecked == Init /\ [][NextUnchecked]_vars

----------------------------------------------------------------------------
(* Specification of the TimerService on its own: a caller starts, stops,   *)
(* pauses and resumes timers, and the intervals that are set fire.         *)

NextTimer ==
  \/ StartTimer
  \/ StopTimer
  \/ PauseTimer
  \/ ResumeTimer
  \/ IntervalFires

SpecTimer == Init /\ [][NextTimer]_vars

\* an interval that stays set fires again
SpecTimerFair == SpecTimer /\ WF_vars(IntervalFires)

----------------------------------------------------------------------------
(* Specification of the TimerService with callbacks that may throw.        *)

NextTimerThrows ==
  \/ NextTimer
  \/ IntervalThrows

SpecTimerThrows == Init /\ [][NextTimerThrows]_vars

----------------------------------------------------------------------------
(* Specification of the listener list on its own: a caller adds and        *)
(* removes handlers and resets the Controller, and events are emitted.     *)

NextEvents ==
  \/ AddListener
  \/ RemoveListener
  \/ EmitEvent
  \/ ResetListeners

SpecEvents == Init /\ [][NextEvents]_vars

----------------------------------------------------------------------------
(* Specification of the scoring functions on their own: they are evaluated *)
(* on every pair of integers of a bounded range.                           *)

Args == (0 - MaxArg)..MaxArg

Evaluate(fn, args, out) ==
  /\ probe' = [fn |-> fn, args |-> args, out |-> out]
  /\ UNCHANGED <<sessions, heap, timers, mq, ret, hist, ctlVars, timerService,
                 listeners>>

CalculateGuessPoints ==
  \E timeRemaining \in Args, maxTime \in Args :
    Evaluate("calculateGuessPoints", <<timeRemaining, maxTime>>,
             calculateGuessPoints(timeRemaining, maxTime))

CalculateGuessScore ==
  \E timeRemaining \in Args, maxTime \in Args :
    Evaluate("calculateGuessScore", <<timeRemaining, maxTime>>,
             calculateGuessScore(timeRemaining, maxTime, 100))

NextPure ==
  \/ CalculateGuessPoints
  \/ CalculateGuessScore

SpecPure == Init /\ [][NextPure]_vars

----------------------------------------------------------------------------
(* Specification of the Controller with an animation collaborator that may *)
(* fail: the Controller is written against IAnimationService, whose        *)
(* initialize may reject.                                                  *)

NextAnimation ==
  \/ NextController
  \/ AnimationLoadFails

SpecAnimation == Init /\ [][NextAnimation]_vars

----------------------------------------------------------------------------
(* Vocabulary of the properties *)

\* the step taken runs the continuation of `op` at the head of the queue
Running(op) == mq # <<>> /\ Head(mq).op = op /\ ret'.op = op

\* what is stored for a session id: the session, its player objects and the
\* object its currentDrawer refers to
Stored(s, h, sid) ==
  [session |-> s[sid],
   players |-> IF s[sid] = Null THEN <<>> ELSE h[s[sid].players],
   drawer |-> IF s[sid] = Null \/ s[sid].currentDrawer = Null
                THEN Null
                ELSE Deref(h, s[sid].currentDrawer)]

\* the step leaves the stored session, its scores and its timer as they were
Untouched(sid) ==
  /\ Stored(sessions', heap', sid) = Stored(sessions, heap, sid)
  /\ timers'[sid] = timers[sid]

\* a guess and a word are equal after trimming and case folding
SameWord(guess, word) == trim(toLowerCase(guess)) = trim(toLowerCase(word))

\* the invocations a timer of duration d owes its callbacks: onTick with
\* d, d-1, ..., 0, then onComplete
Pattern(d) ==
  [k \in 1..(d + 2) |-> IF k <= d + 1 THEN Tick(d + 1 - k) ELSE Complete]

IsPrefix(s, t) == Len(s) <= Len(t) /\ \A k \in 1..Len(s) : s[k] = t[k]

\* the timers started so far
Objects(ts) == 1..Len(ts.objects)

\* the intervals set for timer i
IntervalsOf(ts, i) == {x \in ts.intervals : x.data = i}

\* timer i is the timer of its session
IsEntry(ts, i) == ts.timers[ts.objects[i].sessionId] = i

\* timer i counts down: it is the timer of its session and an interval is
\* set for it
Ticking(ts, i) ==
  /\ i \in Objects(ts)
  /\ IsEntry(ts, i)
  /\ ts.objects[i].isActive
  /\ IntervalsOf(ts, i) # {}

\* timer i is paused: the timer of its session, with no interval set
Paused(ts, i) ==
  /\ i \in Objects(ts)
  /\ IsEntry(ts, i)
  /\ ts.objects[i].isActive
  /\ IntervalsOf(ts, i) = {}

\* timer i made all its invocations
Completed(ts, i) == ts.calls[i] = Pattern(ts.objects[i].duration)

\* a step invokes callbacks of ticking timers only
OnlyTickingTimersCall ==
  \A i \in Objects(timerService) :
    timerService'.calls[i] # timerService.calls[i]
    => Ticking(timerService, i)

----------------------------------------------------------------------------
(* C1: after a submitGuess that returns true, the players entry of the
   current drawer has its score increased by exactly 50, the guesser's entry
   by exactly guessPoints(timeRemaining, maxTime), and every other entry is
   unchanged (stated for sessions with maxTime > 0, where guessPoints is a
   number). *)
C1_ScoresAfterCorrectGuess ==
  [][ ( /\ Running("submitGuess")
        /\ ret'.result = "true"
        /\ Head(mq).snap.maxTime > 0 ) =>
        LET c == Head(mq)
            session == c.snap
            before == heap[session.players]
            after == heap'[sessions'[c.sid].players]
            points ==
              calculateGuessPoints(session.timeRemaining, session.maxTime)
        IN \A i \in 1..Len(before) :
             after[i].score =
               IF /\ session.currentDrawer # Null
                  /\ before[i].id = Deref(heap, session.currentDrawer).id
                 THEN JsAdd(before[i].score, 50)
               ELSE IF before[i].id = c.player
                 THEN JsAdd(before[i].score, points)
               ELSE before[i].score ]_vars

(* C2: once a session that has played its rounds is stored as GAME_OVER it
   stays GAME_OVER under every later step, and no startGame or selectWord on
   it succeeds.  (A caller's own updateGameState, the documented
   unconditional overwrite, is left out of the steps considered, and so are
   sessions with maxTime = 0, whose timer cannot be started.) *)
C2_GameOverIsTerminal ==
  [][ \A sid \in SessionIds :
        ( /\ sessions[sid] # Null
          /\ sessions[sid].state = GAME_OVER
          /\ sessions[sid].round >= sessions[sid].maxRounds
          /\ sessions[sid].maxTime > 0
          /\ ~(Running("updateGameState") /\ Head(mq).origin = "caller") )
        => /\ sessions'[sid].state = GAME_OVER
           /\ ~(ret'.op \in {"startGame", "selectWord"} /\ ret'.result = "ok")
    ]_vars

(* C3: when a game driven through the Controller has emitted GAME_ENDED, a
   word was selected for each of its rounds 1..maxRounds exactly once: no
   round was skipped and none repeated (stated for games with maxTime > 0,
   whose round timer can be started). *)
C3_EveryRoundPlayedOnce ==
  \A sid \in SessionIds :
    ( /\ sessions[sid] # Null
      /\ sessions[sid].maxTime > 0
      /\ \E e \in events : e.event = GAME_ENDED )
    => \A r \in 1..sessions[sid].maxRounds : hist.words[r] = 1

(* C4: once the round timer has counted down to zero and its completion
   callback has stored TIME_UP, the listener eventually has received a
   TIME_UP event and the session has left TIME_UP (for DRAWING of the next
   round, or GAME_OVER). *)
C4_TimeUpEndsRound ==
  \A sid \in OneSession :
    ( /\ eventHandlers
      /\ sessions[sid] # Null
      /\ sessions[sid].state = TIME_UP
      /\ hist.timeUp )
    ~> ( /\ \E e \in events : e.event = TIME_UP_EVENT
         /\ sessions[sid].state \in {DRAWING, GAME_OVER} )

(* C11: initializeGame with fewer than 2 players (Engine) or fewer than 2
   names (Controller) fails with InsufficientPlayers, stores no session,
   leaves the Controller's cached session as it was, emits no event and
   leaves no timeout pending that could emit one. *)
C11_InsufficientPlayers ==
  [][ ( \/ ret'.op = "initializeGame" /\ Len(ret'.args.players) < 2
        \/ ret'.op = "Controller.initializeGame" /\ ret'.args.names < 2 )
      => /\ ret'.result = "InsufficientPlayers"
         /\ sessions' = sessions
         /\ heap' = heap
         /\ timers' = timers
         /\ currentSession' = currentSession
         /\ events' = events
         /\ tasks' = tasks ]_vars

\* the Controller refused one name while it held a session and a listener
C11_Witness ==
  /\ ret.op = "Controller.initializeGame"
  /\ ret.result = "InsufficientPlayers"
  /\ currentSession # Null
  /\ eventHandlers

(* C12: initializeGame rejects a configuration with maxTime = 0 (or less):
   it fails and stores no session. *)
C12_InvalidConfigRejected ==
  ( /\ ret.op = "initializeGame"
    /\ Len(ret.args.players) >= 2
    /\ ret.args.config.maxTime <= 0 )
  => (ret.result # "ok" /\ sessions[ret.sid] = Null)

(* C5: however the completion callback of a round timer and a correct
   submitGuess are ordered, the drawing phase the timer was started for has
   one outcome: a guess is credited, the state is CORRECT_GUESS, the timer is
   stopped and its callback never writes TIME_UP; or the callback writes
   TIME_UP and no guess is credited. *)
C5_OneOutcomePerRound ==
  /\ ~(hist.phaseCredits > 0 /\ hist.timeUp)
  /\ (ret.op = "submitGuess" /\ ret.result = "true") =>
       /\ sessions[ret.sid].state = CORRECT_GUESS
       /\ timers[ret.sid] = Null

\* a guess was credited after the timer had ticked, and stopped the timer
C5_Witness ==
  /\ ret.op = "submitGuess" /\ ret.result = "true"
  /\ sessions[ret.sid].timeRemaining < sessions[ret.sid].maxTime
  /\ sessions[ret.sid].timeRemaining > 0
  /\ timers[ret.sid] = Null

(* C6: within one round of a started game (between two round advances, for
   sessions with maxTime > 0) submitGuess returns true at most once. *)
C6_OneCorrectGuessPerRound ==
  \A sid \in SessionIds :
    (sessions[sid] # Null /\ sessions[sid].round >= 1
       /\ sessions[sid].maxTime > 0)
    => hist.credits <= 1

(* C7: while the session is DRAWING with a word selected, a submitGuess with
   the current drawer's id fails with DrawerCannotGuess, whatever the guess,
   and changes no score, state or timer. *)
C7_DrawerCannotGuess ==
  [][ ( /\ Running("submitGuess")
        /\ Head(mq).snap # Null
        /\ Head(mq).snap.state = DRAWING
        /\ Head(mq).snap.currentWord # Null
        /\ Head(mq).snap.currentDrawer # Null
        /\ Head(mq).player = Deref(heap, Head(mq).snap.currentDrawer).id )
      => /\ ret'.result = "DrawerCannotGuess"
         /\ Untouched(Head(mq).sid) ]_vars

\* the drawer submitted the very word and was refused
C7_Witness ==
  /\ ret.op = "submitGuess" /\ ret.result = "DrawerCannotGuess"
  /\ sessions[ret.sid].state = DRAWING
  /\ SameWord(ret.args.guess, sessions[ret.sid].currentWord.word)

(* C8: a submitGuess on a session in WAITING, CORRECT_GUESS, TIME_UP or
   GAME_OVER fails with InvalidStateTransition and leaves the stored session
   unchanged. *)
C8_GuessOutsideDrawingRejected ==
  [][ ( /\ Running("submitGuess")
        /\ Head(mq).snap # Null
        /\ Head(mq).snap.state \in {WAITING, CORRECT_GUESS, TIME_UP, GAME_OVER} )
      => /\ ret'.result = "InvalidStateTransition"
         /\ Untouched(Head(mq).sid) ]_vars

\* the round timer moved the session to TIME_UP, then the word was guessed
C8_Witness ==
  /\ ret.op = "submitGuess" /\ ret.result = "InvalidStateTransition"
  /\ sessions[ret.sid].state = TIME_UP /\ hist.timeUp
  /\ SameWord(ret.args.guess, sessions[ret.sid].currentWord.word)

(* C9: a submitGuess by a player of the session who is not the drawer, with a
   guess that differs from the word after trimming and case folding, returns
   false and leaves state, scores, round, word and timer unchanged. *)
C9_WrongGuessChangesNothing ==
  [][ ( /\ Running("submitGuess")
        /\ Head(mq).snap # Null
        /\ Head(mq).snap.state \in {DRAWING, GUESSING}
        /\ Head(mq).snap.currentWord # Null
        /\ FindPlayer(heap[Head(mq).snap.players], Head(mq).player) # 0
        /\ \/ Head(mq).snap.currentDrawer = Null
           \/ Head(mq).player # Deref(heap, Head(mq).snap.currentDrawer).id
        /\ ~SameWord(Head(mq).guess, Head(mq).snap.currentWord.word) )
      => /\ ret'.result = "false"
         /\ Untouched(Head(mq).sid) ]_vars

\* a non-empty wrong guess was answered false while the timer runs
C9_Witness ==
  /\ ret.op = "submitGuess" /\ ret.result = "false"
  /\ ret.args.guess # <<>>
  /\ timers[ret.sid] # Null

(* C10: initializeGame with any configuration and at least two player records
   stores a session in WAITING, round 0, every score 0 and no drawing flag
   whatever the records carried, no drawer, no word, timeRemaining = maxTime,
   and starts no timer. *)
C10_InitializeGame ==
  (ret.op = "initializeGame" /\ Len(ret.args.players) >= 2) =>
    LET session == sessions[ret.sid]
        players == heap[session.players]
    IN /\ ret.result = "ok"
       /\ session.id = ret.sid
       /\ session.state = WAITING
       /\ session.round = 0
       /\ session.currentDrawer = Null
       /\ session.currentWord = Null
       /\ session.timeRemaining = ret.args.config.maxTime
       /\ session.maxTime = ret.args.config.maxTime
       /\ session.maxRounds = ret.args.config.maxRounds
       /\ Len(players) = Len(ret.args.players)
       /\ \A i \in 1..Len(players) :
            /\ players[i].id = ret.args.players[i].id
            /\ players[i].score = 0
            /\ players[i].isDrawing = FALSE
       /\ timers[ret.sid] = Null

\* records that carried a score and a drawing flag were initialized
C10_Witness ==
  /\ ret.op = "initializeGame" /\ ret.result = "ok"
  /\ ret.args.players[1].score > 0
  /\ ret.args.players[1].isDrawing

(* C13: the Engine's startGame succeeds only for a stored session in WAITING:
   for an unknown id it fails with SessionNotFound, in any other state with
   InvalidStateTransition, and both leave the stored session, its scores and
   its timer as they were.  A success leaves the session out of WAITING and
   no step brings a session back to it, so a session is started at most
   once. *)
C13_StartGameOnlyFromWaiting ==
  [][ /\ Running("startGame") =>
          LET sid == Head(mq).sid
              session == sessions[sid]
          IN IF session = Null
               THEN ret'.result = "SessionNotFound" /\ Untouched(sid)
             ELSE IF session.state # WAITING
               THEN ret'.result = "InvalidStateTransition" /\ Untouched(sid)
             ELSE /\ ret'.result = "ok"
                  /\ sessions'[sid].state # WAITING
      /\ \A sid \in SessionIds :
           (sessions[sid] # Null /\ sessions[sid].state # WAITING)
           => (sessions'[sid] # Null /\ sessions'[sid].state # WAITING)
    ]_vars

\* a second startGame was refused for a session in its drawing phase
C13_Witness ==
  /\ ret.op = "startGame"
  /\ ret.result = "InvalidStateTransition"
  /\ sessions[ret.sid].state = DRAWING
  /\ sessions[ret.sid].currentWord # Null

(* C14: whenever a stored session is in round N >= 1, its current drawer is
   the player at position (N-1) mod players.length of the list in join order
   (the ids 1..n in the order supplied), that player and no other carries the
   drawing flag, and the list is still in join order, whatever the scores and
   however the earlier rounds ended. *)
C14_DrawerRotation ==
  \A sid \in SessionIds :
    (sessions[sid] # Null /\ sessions[sid].round >= 1) =>
      LET session == sessions[sid]
          players == heap[session.players]
          drawerIndex == ((session.round - 1) % Len(players)) + 1
      IN /\ \A i \in 1..Len(players) : players[i].id = i
         /\ session.currentDrawer # Null
         /\ Deref(heap, session.currentDrawer).id = players[drawerIndex].id
         /\ \A i \in 1..Len(players) :
              players[i].isDrawing <=> (i = drawerIndex)

\* the first player draws again in a round after every player drew, in a
\* game where a guess was credited and the time of this round ran out
C14_Witness ==
  \E sid \in SessionIds :
    /\ sessions[sid] # Null
    /\ sessions[sid].round > Len(heap[sessions[sid].players])
    /\ Deref(heap, sessions[sid].currentDrawer).id = 1
    /\ sessions[sid].state = TIME_UP
    /\ hist.total > 0

(* C15: the Engine's endRound on a stored session returns it with the
   session's timer stopped and removed.  If round >= maxRounds the state is
   GAME_OVER and the round, the players with their scores and flags, the
   drawer, the word and timeRemaining are as before.  Otherwise the round is
   round + 1, the state DRAWING, the word null, timeRemaining = maxTime, the
   player at position (round mod players.length) and no other carries the
   drawing flag, ids and scores are as before; no word is selected and no
   timer is started. *)
C15_EndRound ==
  [][ (Running("endRound") /\ sessions[Head(mq).sid] # Null) =>
        LET sid == Head(mq).sid
            session == sessions[sid]
            before == Stored(sessions, heap, sid)
            after == Stored(sessions', heap', sid)
        IN /\ ret'.result = "ok"
           /\ timers'[sid] = Null
           /\ after.session # Null
           /\ after.session.maxTime = session.maxTime
           /\ after.session.maxRounds = session.maxRounds
           /\ IF session.round >= session.maxRounds
                THEN /\ after.session.state = GAME_OVER
                     /\ after.session.round = session.round
                     /\ after.players = before.players
                     /\ after.drawer = before.drawer
                     /\ after.session.currentWord = session.currentWord
                     /\ after.session.timeRemaining = session.timeRemaining
                ELSE /\ after.session.state = DRAWING
                     /\ after.session.round = session.round + 1
                     /\ after.session.currentWord = Null
                     /\ after.session.timeRemaining = session.maxTime
                     /\ Len(after.players) = Len(before.players)
                     /\ \A i \in 1..Len(before.players) :
                          /\ after.players[i].id = before.players[i].id
                          /\ after.players[i].score = before.players[i].score
                          /\ after.players[i].isDrawing <=>
                               (i = (session.round % Len(before.players)) + 1)
    ]_vars

\* endRound opened the second round of a game in which points were scored
C15_Witness ==
  /\ ret.op = "endRound" /\ ret.result = "ok"
  /\ sessions[ret.sid].state = DRAWING
  /\ sessions[ret.sid].round >= 2
  /\ \E i \in 1..Len(heap[sessions[ret.sid].players]) :
       heap[sessions[ret.sid].players][i].score > 0

(* C16: a timer started with duration d > 0 invokes onTick with d (within
   startTimer), d-1, ..., 0 in that order, then onComplete once, and nothing
   after it; when it has made all its invocations it is no longer the timer
   of its session, no interval is set for it and the remaining time of the
   session is null.  Only a call of startTimer, stopTimer or pauseTimer for
   its session keeps it from getting there: every firing of its interval
   makes the next invocation, and the first timer started (any session, any
   duration, whatever is started after it) does not count down forever. *)
C16_TickSequence ==
  /\ [](\A i \in Objects(timerService) :
          /\ timerService.calls[i] # <<>>
          /\ IsPrefix(timerService.calls[i],
                      Pattern(timerService.objects[i].duration))
          /\ Completed(timerService, i) =>
               /\ ~IsEntry(timerService, i)
               /\ ~timerService.objects[i].isActive
               /\ IntervalsOf(timerService, i) = {})
  /\ [][ \A i \in Objects(timerService) :
           LET sid == timerService.objects[i].sessionId IN
           /\ ( /\ Ticking(timerService, i)
                /\ ret'.op = "interval" /\ ret'.sid = sid )
              => Len(timerService'.calls[i]) > Len(timerService.calls[i])
           /\ (Ticking(timerService, i) /\ ~Ticking(timerService', i))
              => \/ /\ ret'.op \in {"startTimer", "stopTimer", "pauseTimer"}
                    /\ ret'.sid = sid
                 \/ /\ ret'.op = "interval"
                    /\ Completed(timerService', i)
                    /\ getRemainingTime(timerService', sid) = Null
      ]_vars
  /\ Ticking(timerService, 1) ~> ~Ticking(timerService, 1)

\* a timer of two seconds or more made all its invocations
C16_Witness ==
  \E i \in Objects(timerService) :
    /\ timerService.objects[i].duration >= 2
    /\ Completed(timerService, i)
    /\ ret.op = "interval"

(* C17: stopTimer removes the timer of the session with every interval set
   for the session, invokes no callback and leaves the remaining time null
   and the other sessions alone; without a timer (so also when repeated) it
   changes nothing.  A timer that is not the timer of its session never
   becomes it again, and only timers that count down invoke callbacks: after
   stopTimer the callbacks of the stopped timer never fire. *)
C17_StopCancels ==
  [][ /\ ret'.op = "stopTimer" =>
          LET sid == ret'.sid IN
          /\ timerService'.timers[sid] = NoTimer
          /\ getRemainingTime(timerService', sid) = Null
          /\ timerService'.calls = timerService.calls
          /\ \A x \in timerService'.intervals :
               timerService'.objects[x.data].sessionId # sid
          /\ \A other \in TimerIds \ {sid} :
               /\ timerService'.timers[other] = timerService.timers[other]
               /\ getRemainingTime(timerService', other)
                    = getRemainingTime(timerService, other)
          /\ timerService.timers[sid] = NoTimer
               => timerService' = timerService
      /\ \A i \in Objects(timerService) :
           ~IsEntry(timerService, i) => ~IsEntry(timerService', i)
      /\ OnlyTickingTimersCall
    ]_vars

\* a timer was stopped after it ticked and before it expired
C17_Witness ==
  /\ ret.op = "stopTimer"
  /\ timerService.timers[ret.sid] = NoTimer
  /\ \E i \in Objects(timerService) :
       /\ timerService.objects[i].sessionId = ret.sid
       /\ \A j \in Objects(timerService) :
            timerService.objects[j].sessionId = ret.sid => j <= i
       /\ Len(timerService.calls[i]) >= 2
       /\ ~Completed(timerService, i)
       /\ timerService.objects[i].intervalId # NoInterval

(* C18: at any time at most one interval is set per session id, and it is
   the one of the timer of that session.  A successful startTimer makes the
   new timer the timer of the session, with onTick(duration) invoked, and
   leaves the timer it replaces, running or paused, inactive and without an
   interval; the callbacks of a replaced timer never fire again. *)
C18_OneTimerPerSession ==
  /\ [](\A sid \in TimerIds :
          LET set == {x \in timerService.intervals :
                        timerService.objects[x.data].sessionId = sid}
          IN /\ Cardinality(set) <= 1
             /\ \A x \in set :
                  /\ timerService.timers[sid] = x.data
                  /\ timerService.objects[x.data].intervalId = x.id)
  /\ [][  /\ (ret'.op = "startTimer" /\ ret'.result = "ok") =>
            LET sid == ret'.sid
                old == timerService.timers[sid]
                new == Len(timerService.objects) + 1
            IN /\ timerService'.timers[sid] = new
               /\ Ticking(timerService', new)
               /\ timerService'.calls[new]
                    = <<Tick(timerService'.objects[new].duration)>>
               /\ old # NoTimer =>
                    /\ ~timerService'.objects[old].isActive
                    /\ IntervalsOf(timerService', old) = {}
                    /\ timerService'.calls[old] = timerService.calls[old]
          /\ \A i \in Objects(timerService) :
               timerService'.calls[i] # timerService.calls[i]
               => IsEntry(timerService, i)
      ]_vars

\* a timer was started for a session whose paused timer it replaced
C18_Witness ==
  /\ ret.op = "startTimer" /\ ret.result = "ok"
  /\ \E i, j \in Objects(timerService) :
       /\ i < j
       /\ timerService.objects[i].sessionId = ret.sid
       /\ timerService.timers[ret.sid] = j
       /\ \A k \in Objects(timerService) :
            (i < k /\ k < j) => timerService.objects[k].sessionId # ret.sid
       /\ ~Completed(timerService, i)
       /\ Len(timerService.calls[i]) >= 2
       /\ timerService.objects[i].intervalId = NoInterval

(* C19: pauseTimer on a timer that counts down returns true and leaves it
   paused: no interval set, the same remaining time, no callback invoked.
   resumeTimer on a paused timer returns true and sets one interval for it,
   with the same remaining time and no callback invoked.  pauseTimer on a
   paused or absent timer and resumeTimer on a running or absent timer return
   false and change nothing.  No callback fires while a timer is paused, and
   the invocations of every timer stay a prefix of d, ..., 0, onComplete. *)
C19_PauseResume ==
  /\ [](\A i \in Objects(timerService) :
          IsPrefix(timerService.calls[i],
                   Pattern(timerService.objects[i].duration)))
  /\ [][  /\ ret'.op = "pauseTimer" =>
            LET sid == ret'.sid
                i == timerService.timers[sid]
            IN IF Ticking(timerService, i)
                 THEN /\ ret'.result = "true"
                      /\ Paused(timerService', i)
                      /\ timerService'.intervals
                           = timerService.intervals \ IntervalsOf(timerService, i)
                      /\ getRemainingTime(timerService', sid)
                           = getRemainingTime(timerService, sid)
                      /\ timerService'.calls = timerService.calls
                 ELSE /\ ret'.result = "false"
                      /\ timerService' = timerService
          /\ ret'.op = "resumeTimer" =>
            LET sid == ret'.sid
                i == timerService.timers[sid]
            IN IF Paused(timerService, i)
                 THEN /\ ret'.result = "true"
                      /\ Ticking(timerService', i)
                      /\ Cardinality(IntervalsOf(timerService', i)) = 1
                      /\ timerService.intervals \subseteq timerService'.intervals
                      /\ getRemainingTime(timerService', sid)
                           = getRemainingTime(timerService, sid)
                      /\ timerService'.calls = timerService.calls
                 ELSE /\ ret'.result = "false"
                      /\ timerService' = timerService
          /\ \A i \in Objects(timerService) :
               Paused(timerService, i)
               => timerService'.calls[i] = timerService.calls[i]
      ]_vars

\* the only timer started was paused, resumed, and made all its invocations
C19_Witness ==
  /\ Len(timerService.objects) = 1
  /\ timerService.objects[1].duration >= 2
  /\ timerService.objects[1].intervalId >= 2
  /\ Completed(timerService, 1)

\* the pending timeouts of one kind
Pending(kind, pending) ==
  Cardinality({i \in 1..Len(pending) : pending[i].kind = kind})

\* the listener, if one is registered, has the event of the round
Emitted(log, event, round) ==
  eventHandlers => \E e \in log : e.event = event /\ e.round = round

(* C20: when the Controller's submitGuess resumes with the Engine's verdict
   it emits GUESS_SUBMITTED and nothing else, and schedules no endRound; for
   true it goes on to the CORRECT_GUESS animation, for false it returns with
   no timeout added.  When the animation is over it emits CORRECT_GUESS and
   schedules exactly one endRound.  CORRECT_GUESS is emitted in no other
   step (so only after the GUESS_SUBMITTED of a guess found correct), and an
   endRound is scheduled only there and in handleTimeUp. *)
C20_GuessEvents ==
  [][ /\ (chain # Null /\ chain.pc = "submitGuess" /\ mq = <<>>
          /\ ret.result \in {"true", "false"}) =>
            /\ Emitted(events', GUESS_SUBMITTED, sessions[ret.sid].round)
            /\ \A e \in events' \ events : e.event = GUESS_SUBMITTED
            /\ Pending("endRound", tasks') = Pending("endRound", tasks)
            /\ IF ret.result = "true"
                 THEN Pending("correctGuess", tasks')
                        = Pending("correctGuess", tasks) + 1
                 ELSE tasks' = tasks /\ chain' = Null
      /\ Pending("correctGuess", tasks') > Pending("correctGuess", tasks) =>
            /\ chain # Null /\ chain.pc = "submitGuess"
            /\ ret.result = "true"
      /\ Pending("correctGuess", tasks') < Pending("correctGuess", tasks) =>
            /\ Emitted(events', CORRECT_GUESS_EVENT, currentSession.round)
            /\ \A e \in events' \ events : e.event = CORRECT_GUESS_EVENT
            /\ Pending("endRound", tasks') = Pending("endRound", tasks) + 1
      /\ (\E e \in events' \ events : e.event = CORRECT_GUESS_EVENT) =>
            Pending("correctGuess", tasks') < Pending("correctGuess", tasks)
      /\ Pending("endRound", tasks') > Pending("endRound", tasks) =>
            \/ Pending("correctGuess", tasks') < Pending("correctGuess", tasks)
            \/ Pending("timeUp", tasks') < Pending("timeUp", tasks)
    ]_vars

\* the listener received GUESS_SUBMITTED and CORRECT_GUESS of round 1, and
\* the endRound of that guess is pending
C20_Witness ==
  /\ [event |-> GUESS_SUBMITTED, round |-> 1] \in events
  /\ [event |-> CORRECT_GUESS_EVENT, round |-> 1] \in events
  /\ Pending("endRound", tasks) = 1
  /\ Pending("correctGuess", tasks) = 0
  /\ ret.op = "none"
  /\ currentSession # Null /\ currentSession.state = CORRECT_GUESS

(* C21: an emitEvent calls every handler of the list once, in the order of
   registration, with the event emitted, whether or not handlers before it
   throw, and no exception leaves emitEvent; the list itself is unchanged.
   (A handler registered twice is two entries of the list.) *)
C21_EveryListenerReceives ==
  [][ ret'.op = "emitEvent" =>
        /\ ret'.result = "ok"
        /\ Len(listeners'.received) = Len(listeners.eventHandlers)
        /\ \A k \in 1..Len(listeners.eventHandlers) :
             /\ listeners'.received[k].handler = listeners.eventHandlers[k].id
             /\ listeners'.received[k].event = listeners'.received[1].event
        /\ listeners'.eventHandlers = listeners.eventHandlers
    ]_vars

\* an event reached the handler registered after the one that throws
C21_Witness ==
  /\ ret.op = "emitEvent"
  /\ Len(listeners.eventHandlers) >= 2
  /\ listeners.eventHandlers[1].throws
  /\ ~listeners.eventHandlers[2].throws
  /\ Len(listeners.received) >= 2
  /\ listeners.received[2].handler = listeners.eventHandlers[2].id

(* C22: a failing animation collaborator does not interrupt the game: when
   the Engine has selected the word, selectWordForRound either awaits the
   DRAWING animation or has emitted WORD_SELECTED and DRAWING_STARTED; when
   the Engine found a guess correct, submitGuess either awaits the
   CORRECT_GUESS animation or has emitted CORRECT_GUESS and scheduled one
   endRound; when the Engine has stored GAME_OVER, endGame either awaits the
   GAME_OVER animation or has emitted GAME_ENDED. *)
C22_AnimationFailureHarmless ==
  [][ (chain # Null /\ mq = <<>> /\ eventHandlers) =>
        LET round == sessions[ret.sid].round IN
        /\ (chain.pc = "selectWordForRound" /\ ret.result = "ok") =>
             \/ Pending("drawing", tasks') = Pending("drawing", tasks) + 1
             \/ /\ Emitted(events', WORD_SELECTED, round)
                /\ Emitted(events', DRAWING_STARTED, round)
        /\ (chain.pc = "submitGuess" /\ ret.result = "true") =>
             \/ Pending("correctGuess", tasks')
                  = Pending("correctGuess", tasks) + 1
             \/ /\ Emitted(events', CORRECT_GUESS_EVENT, round)
                /\ Pending("endRound", tasks') = Pending("endRound", tasks) + 1
        /\ (chain.pc = "endGame" /\ ret.result = "ok") =>
             \/ Pending("gameOver", tasks') = Pending("gameOver", tasks) + 1
             \/ Emitted(events', GAME_ENDED, round)
    ]_vars

\* a <= b for two numbers: no comparison with NaN holds
NumLe(a, b) == a # NaN /\ b # NaN /\ a <= b

\* the ids of the players no player of the list outscores
HighestScorers(players) ==
  {players[i].id : i \in {k \in 1..Len(players) :
                            \A j \in 1..Len(players) :
                              NumLe(players[j].score, players[k].score)}}

(* C23: the winner list that endGame emits with GAME_ENDED holds exactly
   the players of the cached session whose score is the maximum over all
   its players, each once, and it is not empty. *)
C23_WinnersHaveMaxScore ==
  [][\A e \in events' \ events :
       e.event = GAME_ENDED =>
         LET players == heap[currentSession.players]
             winners == {e.winners[i] : i \in 1..Len(e.winners)}
         IN /\ e.winners # <<>>
            /\ winners = HighestScorers(players)
            /\ Cardinality(winners) = Len(e.winners)]_vars

(* C24: the points of a guess are 100 + floor(50 * timeRemaining / maxTime)
   when maxTime > 0 and 0 <= timeRemaining <= maxTime, 100 when
   maxTime <= 0, and in every case a number that is not negative. *)
C24_GuessPoints ==
  probe.fn = "calculateGuessPoints" =>
    LET timeRemaining == probe.args[1]
        maxTime == probe.args[2]
    IN /\ probe.out \notin {NaN, Infinity, NegInfinity}
       /\ probe.out >= 0
       /\ (maxTime > 0 /\ 0 <= timeRemaining /\ timeRemaining <= maxTime) =>
            probe.out = 100 + ((50 * timeRemaining) \div maxTime)
       /\ maxTime <= 0 => probe.out = 100

(* C25: the word of a session belongs to the difficulty tier of the
   configuration the game was initialized with. *)
C25_WordOfConfiguredTier ==
  \A sid \in SessionIds :
    (sessions[sid] # Null /\ sessions[sid].currentWord # Null) =>
      sessions[sid].currentWord.difficulty = hist.difficulty

(* C26: reset leaves the Controller with no cached session and no listener.
   While no listener is registered no event is received.  The cached
   session stays null until initializeGame succeeds again; while it is
   null, from the start or after a reset, no Controller method reaches the
   Engine (no method is left awaiting and no call of a caller is queued),
   and a call that fails with NoActiveSession changes nothing. *)
C26_ResetClearsSession ==
  /\ [][ret'.op = "Controller.reset" =>
          currentSession' = Null /\ ~eventHandlers']_vars
  /\ [][~eventHandlers => events' = events]_vars
  /\ [][(currentSession = Null /\ currentSession' # Null) =>
          ret'.op = "initializeGame" /\ ret'.result = "ok"]_vars
  /\ [][currentSession = Null =>
          /\ chain' = Null
          /\ \A i \in 1..Len(mq') : mq'[i].origin = "timer"]_vars
  /\ [][ret'.result = "NoActiveSession" =>
          UNCHANGED <<sessions, heap, timers, mq, chain, tasks,
                      currentSession, eventHandlers, events>>]_vars

\* a call failed with NoActiveSession after a game was played and reset
C26_Witness ==
  /\ ret.result = "NoActiveSession"
  /\ currentSession = Null
  /\ \E sid \in SessionIds : sessions[sid] # Null /\ sessions[sid].round >= 1
  /\ events # {}
  /\ ~eventHandlers

(* C27: in every state of every session the round is between 0 and
   maxRounds and the time remaining is between 0 and maxTime. *)
C27_RoundAndTimeInRange ==
  \A sid \in SessionIds :
    sessions[sid] # Null =>
      /\ 0 <= sessions[sid].round
      /\ sessions[sid].round <= sessions[sid].maxRounds
      /\ 0 <= sessions[sid].timeRemaining
      /\ sessions[sid].timeRemaining <= sessions[sid].maxTime

\* the number of players of a session whose isDrawing flag is set
Drawing(session) ==
  Cardinality({i \in 1..Len(heap[session.players]) :
                 heap[session.players][i].isDrawing})

(* C28: in every state of a session exactly one player has isDrawing set
   while the session has a word, and none has while it has no word. *)
C28_OneDrawerWithWord ==
  \A sid \in SessionIds :
    sessions[sid] # Null =>
      Drawing(sessions[sid]) =
        (IF sessions[sid].currentWord # Null THEN 1 ELSE 0)

(* C29: in every state the currentDrawer of a session is null or has the
   id of exactly one entry of its players, and that entry has the same
   score and the same isDrawing flag. *)
C29_DrawerIsAPlayer ==
  \A sid \in SessionIds :
    (sessions[sid] # Null /\ sessions[sid].currentDrawer # Null) =>
      LET drawer == Deref(heap, sessions[sid].currentDrawer)
          players == heap[sessions[sid].players]
          entries == {i \in 1..Len(players) : players[i].id = drawer.id}
      IN /\ Cardinality(entries) = 1
         /\ \A i \in entries :
              /\ players[i].score = drawer.score
              /\ players[i].isDrawing = drawer.isDrawing

\* the transitions of the state machine WAITING -> DRAWING ->
\* {CORRECT_GUESS | TIME_UP} -> DRAWING | GAME_OVER
Transitions ==
  { <<WAITING, DRAWING>>, <<DRAWING, CORRECT_GUESS>>, <<DRAWING, TIME_UP>>,
    <<CORRECT_GUESS, DRAWING>>, <<TIME_UP, DRAWING>>,
    <<CORRECT_GUESS, GAME_OVER>>, <<TIME_UP, GAME_OVER>> }

(* C30: in a game driven through the Controller every change of the state
   a session is stored with is a transition of the state machine: GAME_OVER
   is entered only from CORRECT_GUESS or TIME_UP, DRAWING is left only to
   CORRECT_GUESS or TIME_UP, and GUESSING is never entered. *)
C30_StateMachine ==
  [][\A sid \in SessionIds :
       (/\ sessions[sid] # Null
        /\ sessions'[sid] # Null
        /\ sessions'[sid].state # sessions[sid].state) =>
         <<sessions[sid].state, sessions'[sid].state>> \in Transitions]_vars

\* the results with which an Engine operation fails
Failures ==
  { "SessionNotFound", "InvalidStateTransition", "InvalidDuration",
    "NoActiveWord", "PlayerNotFound", "DrawerCannotGuess",
    "InsufficientPlayers" }

(* C31: an Engine operation that fails leaves what is stored for every
   session, and the session's timer, as they were before the step in which
   it fails. *)
C31_FailureChangesNothing ==
  [][ret'.result \in Failures =>
       \A sid \in SessionIds : Untouched(sid)]_vars

(* C32: a callback that throws does not keep the timer from its own
   bookkeeping: after a firing before expiry the timer still ticks, and
   after the firing at expiry no interval is set for the timer, it is no
   longer the timer of its session, and the remaining time of its session
   is null. *)
C32_BookkeepingDespiteThrow ==
  [][\A i \in Objects(timerService) :
       timerService'.calls[i] # timerService.calls[i] =>
         IF timerService'.objects[i].timeRemaining > 0
           THEN Ticking(timerService', i)
           ELSE /\ IntervalsOf(timerService', i) = {}
                /\ ~IsEntry(timerService', i)
                /\ getRemainingTime(timerService',
                                    timerService.objects[i].sessionId) = Null]_vars

(* C33: a delayed endRound acts only on the game whose submitGuess or
   handleTimeUp scheduled it: the Controller calls the Engine's endRound
   from a timeout only for a session in which a round was played, never for
   a session that is still WAITING. *)
C33_StaleEndRoundIgnored ==
  [][\A i \in 1..Len(tasks) :
       (/\ tasks[i].kind = "endRound"
        /\ tasks' = Without(i)
        /\ mq = <<>> /\ mq' # <<>>
        /\ Head(mq').op = "endRound") =>
         sessions[Head(mq').sid].state # WAITING]_vars


\* C34: a session snapshot that getGameSession returned, the one the
\* Controller keeps in currentSession, is never changed by a later step: the
\* player objects it refers to keep their id, score and drawing flag as long
\* as the Controller holds that same snapshot.
C34_SnapshotNeverChanges ==
  [][(currentSession # Null /\ currentSession' = currentSession) =>
       \A g \in Refs(currentSession) : heap'[g] = heap[g]]_vars


\* the last step of an operation, had it read the store when it writes
Serial(c) ==
  LET fresh == [c EXCEPT !.snap = sessions[c.sid]] IN
  CASE c.op = "startGame" -> startGame(fresh)
    [] c.op = "selectWord" -> selectWordStore(fresh)
    [] c.op = "submitGuess" -> submitGuess(fresh)
    [] c.op = "endRound" -> endRound(fresh)
    [] c.op = "updateGameState" -> updateGameState(fresh)

\* C35: operations interleaved at their awaits lose no update: when an
\* operation writes the store, the stored session is what the operation
\* makes of the session stored just before, so a write that came between
\* its read and its write stays.
C35_NoLostUpdate ==
  [][(mq # <<>> /\ Len(mq') < Len(mq)) =>
       sessions' = Serial(Head(mq)).s]_vars


\* no Controller method runs, awaits or has a callback pending
Quiet == Idle /\ ~busy /\ tasks = <<>>

\* C36: whenever no Controller operation is in progress, the session the
\* Controller caches has the state, the round and the player scores of the
\* session the Engine stores under its id.
C36_CacheMatchesStore ==
  (Quiet /\ currentSession # Null) =>
    /\ sessions[currentSession.id] # Null
    /\ currentSession.state = sessions[currentSession.id].state
    /\ currentSession.round = sessions[currentSession.id].round
    /\ [i \in DOMAIN heap[currentSession.players] |->
          heap[currentSession.players][i].score]
       = [i \in DOMAIN heap[sessions[currentSession.id].players] |->
            heap[sessions[currentSession.id].players][i].score]


\* C37: a timer is registered for a session only while the stored session is
\* DRAWING with a word: none for a session that is WAITING, CORRECT_GUESS,
\* TIME_UP or GAME_OVER, or that is not stored.
C37_TimerOnlyWhileDrawing ==
  \A sid \in SessionIds :
    timers[sid] # Null =>
      /\ sessions[sid] # Null
      /\ sessions[sid].state = DRAWING
      /\ sessions[sid].currentWord # Null


(* C38: GAME_ENDED is the last event of a game: once the listener received
   it, no endRound emits ROUND_ENDED, no selectWordForRound emits
   WORD_SELECTED and no endGame emits GAME_ENDED again, whatever delayed
   endRound is still pending. *)
C38_GameEndedIsLast ==
  [][(eventHandlers /\ \E e \in events : e.event = GAME_ENDED) =>
       /\ ~(chain # Null /\ chain.pc = "endRound" /\ mq = <<>>
            /\ ret.result = "ok")
       /\ currentSession # Null =>
            /\ Pending("gameOver", tasks') >= Pending("gameOver", tasks)
            /\ Pending("drawing", tasks') >= Pending("drawing", tasks)]_vars


\* C39: a startTimer that fails for its duration leaves the timers as they
\* were: the entry of the session, the timer objects and the intervals set.
C39_FailedStartKeepsTimer ==
  [][(ret'.op = "startTimer" /\ ret'.result = "InvalidDuration") =>
       /\ timerService'.timers = timerService.timers
       /\ timerService'.objects = timerService.objects
       /\ timerService'.intervals = timerService.intervals]_vars


\* a step leaves session b alone: its stored record, its timer and the
\* player objects it refers to
Same(b) ==
  /\ sessions'[b] = sessions[b]
  /\ timers'[b] = timers[b]
  /\ \A g \in Refs(sessions[b]) : heap'[g] = heap[g]

(* C40: the sessions of one Engine do not touch each other: a continuation
   of an operation on session a, an initializeGame that creates a, and any
   step that changes the record or the timer of a (a tick of a's timer
   included) leave the record, the timer and the players of every other
   session b as they were. *)
C40_SessionsIsolated ==
  [][\A a, b \in SessionIds :
       (/\ a # b
        /\ \/ mq # <<>> /\ Head(mq).sid = a
           \/ ret'.op = "initializeGame" /\ ret'.sid = a
           \/ sessions'[a] # sessions[a]
           \/ timers'[a] # timers[a]) => Same(b)]_vars

\* the timer of s1 ran out and s1 is TIME_UP, while s2 is in its round with
\* its timer at the full second
C40_Witness ==
  /\ TwoSessions \subseteq SessionIds
  /\ sessions["s1"] # Null /\ sessions["s2"] # Null
  /\ sessions["s1"].state = TIME_UP /\ timers["s1"] = Null
  /\ sessions["s2"].state = DRAWING
  /\ timers["s2"] # Null /\ timers["s2"].timeRemaining = 1

====
